---- MODULE Spec2Model ----
(***************************************************************************)
(* AgentHub: the agent registry (backend/onyx/agents/registry.py) and the  *)
(* knowledge-base manager (backend/onyx/agents/knowledge/manager.py,       *)
(* models.py) as a state machine.                                          *)
(*                                                                         *)
(* A version string 'v'*k + "a.b.c" is the record                          *)
(* [v |-> k, major |-> a, minor |-> b, micro |-> c]; the UUIDs uuid4 hands *)
(* out are the elements of KbIds and ConnectorIds, each handed out once;    *)
(* execute_agent reads the wall clock only for differences, in whole       *)
(* seconds; the manager reads it as now, in whole minutes, once per call.  *)
(* Of a knowledge base the fields description, agent_keys, created_at,     *)
(* updated_at, created_by and last_queried_at are left out: no operation   *)
(* modelled here reads them.                                               *)
(***************************************************************************)
EXTENDS Integers, Sequences, FiniteSets, TLC

\* ------------------------------------------------------------- bounds
MaxIds == 2
MaxVersions == 3
MaxQueryCount == 2
MaxElapsed == 1
MaxTime == 1
MaxSyncs == 1
MaxQuestions == 3
MaxThreads == 2

\* ------------------------------------------------------------- inputs
\* The UUIDs of the knowledge bases, in the order uuid4 hands them out. A
\* caller may name any of them at any time: one not handed out yet, or one
\* whose knowledge base was deleted, is the id of no stored knowledge base.
KbIds == <<"kb-1", "kb-2">>
KbIdUniverse == { KbIds[i] : i \in 1..Len(KbIds) }

RECURSIVE SeqsUpTo(_, _)
SeqsUpTo(S, n) ==
    IF n = 0 THEN {<<>>}
    ELSE LET shorter == SeqsUpTo(S, n - 1)
         IN shorter \cup {Append(s, x) : s \in {t \in shorter : Len(t) = n - 1}, x \in S}

KbIdLists == SeqsUpTo(KbIdUniverse, MaxIds)

\* An Optional[...] value: <<>> is None, <<x>> is x.
NoValue == <<>>
Some(x) == <<x>>

\* AgentTriggerConfig(trigger_type, enabled)
Trigger(trigger_type, enabled) == [trigger_type |-> trigger_type, enabled |-> enabled]

\* AgentDefinition.__post_init__ on the list fields the registry reads: a
\* field left at None becomes the empty list, triggers left at None becomes
\* one manual trigger, enabled by default.
PostInit(args) ==
    [args EXCEPT !.capabilities = IF @ = NoValue THEN <<>> ELSE @[1],
                 !.triggers = IF @ = NoValue THEN <<Trigger("manual", TRUE)>> ELSE @[1],
                 !.tags = IF @ = NoValue THEN <<>> ELSE @[1]]

\* The definition travel_agent.py registers when the registry module is
\* imported: every optional field at its default.
TravelAgent ==
    PostInit([runner |-> "run_travel_agent", key |-> "travel_planning_agent", name |-> "AI Travel Planning Assistant",
              version |-> "1.0.0", use_knowledge_base |-> FALSE, knowledge_base_ids |-> <<>>,
              agent_type |-> "conversational", capabilities |-> NoValue,
              triggers |-> NoValue, tags |-> NoValue])

\* The definitions callers register: the built-in one, and a second agent
\* with or without knowledge bases.
ResearchAgent(use_knowledge_base, knowledge_base_ids) ==
    PostInit([runner |-> "runner of research_agent", key |-> "research_agent", name |-> "Research Assistant", version |-> "2.1.0",
              use_knowledge_base |-> use_knowledge_base,
              knowledge_base_ids |-> knowledge_base_ids,
              agent_type |-> "research", capabilities |-> Some(<<"web_search", "rag">>),
              triggers |-> NoValue, tags |-> Some(<<"travel">>)])

AgentDefinitions ==
    {TravelAgent}
        \cup { ResearchAgent(TRUE, ids) : ids \in KbIdLists }
        \cup { ResearchAgent(FALSE, <<>>), ResearchAgent(FALSE, <<KbIds[1]>>) }

AgentKeys == { a.key : a \in AgentDefinitions }

\* The UUIDs of the connectors, in the order uuid4 hands them out.
ConnectorIds == <<"c-1", "c-2">>
ConnectorIdUniverse == { ConnectorIds[i] : i \in 1..Len(ConnectorIds) }

\* add_connector(auto_sync, sync_interval_minutes): the interval is any int
\* the caller gives (the default is 60), here one minute.
ConnectorInputs ==
    { [auto_sync |-> TRUE, sync_interval_minutes |-> 1],
      [auto_sync |-> FALSE, sync_interval_minutes |-> 1] }

\* create_knowledge_base(name) and update_knowledge_base(name=...)
KbNames == {"docs"}
UpdateNames == {NoValue, Some("handbook")}

VersionInputs == { [document_count |-> 12, total_size_bytes |-> 4096] }

Tag(k, a, b, c) == [v |-> k, major |-> a, minor |-> b, micro |-> c]

\* "v1.0.m" for every m the bound allows, "v9.9.9", and "1.0.1" without the prefix.
TargetVersions ==
    { Tag(1, 1, 0, m) : m \in 0..(MaxVersions + 1) }
        \cup { Tag(1, 9, 9, 9), Tag(0, 1, 0, 1) }

EmptyDict == [k \in {} |-> "x"]

\* The contexts callers pass to execute_agent: none, an empty dict, one with
\* the user's id, and one that has a "knowledge_bases" entry of its own.
Contexts ==
    { NoValue, Some(EmptyDict), Some([k \in {"user_id"} |-> "u1"]),
      Some([k \in {"user_id", "knowledge_bases"} |->
               IF k = "user_id" THEN "u1" ELSE <<>>]) }

RunnerMetadata ==
    { [k \in {"model", "agent_key"} |-> IF k = "model" THEN "gpt-4o" ELSE "spoofed"] }

\* What a runner hands back: a dict with an answer, with or without "metadata".
RunnerResults ==
    { [answer |-> "itinerary", has_metadata |-> FALSE, metadata |-> EmptyDict] }
        \cup { [answer |-> "itinerary", has_metadata |-> TRUE, metadata |-> m] :
                 m \in RunnerMetadata }

\* Exceptions a runner raises: subclasses of Exception, and one that is not.
RunnerErrors == {"ValueError: Query must be a non-empty string", "RuntimeError"}
RunnerBaseErrors == {"KeyboardInterrupt"}

VARIABLES
    registry,           \* _AGENT_REGISTRY: key -> AgentDefinition
    knowledge_bases,    \* KnowledgeBaseManager._knowledge_bases: kb_id -> KnowledgeBase
    next_kb_id,         \* the next UUID uuid4 hands out
    inflight,           \* the execute_agent call whose runner is running
    last,               \* the last completed call: its arguments and its outcome
    next_connector_id,  \* the next UUID uuid4 hands out to a connector
    metrics,            \* KnowledgeBaseManager._metrics: kb_id -> list of usage metrics
    now,                \* datetime.utcnow(), in minutes
    connector_created,  \* per stored connector: what the clock showed when add_connector built it
    travel,             \* the run of the travel agent's graph: its step and its TravelState
    calls,              \* per request thread: where its execute_agent call stands
    run_start,          \* per kb: len(versions) when the current run of create_version calls began
    run_creates,        \* per kb: create_version calls since then
    runner_calls        \* per kb: finished executions of agents bound to it

vars == <<registry, knowledge_bases, next_kb_id, inflight, last,
          next_connector_id, metrics, now, connector_created, travel, calls,
          run_start, run_creates, runner_calls>>

historyVars == <<run_start, run_creates, runner_calls>>

\* What the registry and the versioning operations never touch.
restVars == <<next_connector_id, metrics, now, connector_created, travel, calls>>

Idle == [active |-> FALSE]

\* ------------------------------------------------------------- models.py
InitialVersion == Tag(1, 1, 0, 0)

\* str.lstrip('v')
LStripV(s) == [s EXCEPT !.v = 0]

\* packaging.version.parse on "a.b.c"
VersionParse(s) == [major |-> s.major, minor |-> s.minor, micro |-> s.micro]

NewVersionNum(current_version) ==
    LET current == VersionParse(LStripV(current_version))
    IN Tag(1, current.major, current.minor, current.micro + 1)

KnowledgeVersion(version, document_count, total_size_bytes) ==
    [version |-> version, document_count |-> document_count,
     total_size_bytes |-> total_size_bytes]

NewKnowledgeBaseInactive(name) ==
    [name |-> name, status |-> "inactive", enabled |-> FALSE,
     current_version |-> InitialVersion, versions |-> <<>>,
     connectors |-> <<>>, query_count |-> 0]

\* KnowledgeBase(name=name) with the field defaults
NewKnowledgeBase(name) ==
    [name |-> name, status |-> "active", enabled |-> TRUE,
     current_version |-> InitialVersion, versions |-> <<>>,
     connectors |-> <<>>, query_count |-> 0]

\* ConnectorConfig(...) as add_connector builds it
ConnectorConfig(connector_id, auto_sync, sync_interval_minutes, next_sync_at) ==
    [connector_id |-> connector_id, enabled |-> TRUE, auto_sync |-> auto_sync,
     sync_interval_minutes |-> sync_interval_minutes,
     last_sync_at |-> NoValue, next_sync_at |-> next_sync_at, total_syncs |-> 0]

KbAddConnector(kb, connector) == [kb EXCEPT !.connectors = Append(@, connector)]

KbRemoveConnector(kb, connector_id) ==
    [kb EXCEPT !.connectors = SelectSeq(@, LAMBDA c : c.connector_id # connector_id)]

HasConnector(kb, connector_id) ==
    \E i \in 1..Len(kb.connectors) : kb.connectors[i].connector_id = connector_id

KbGetActiveConnectors(kb) == SelectSeq(kb.connectors, LAMBDA c : c.enabled)

KbCreateVersionKeepsCurrent(kb, document_count, total_size_bytes) ==
    LET new_version_num == NewVersionNum(kb.current_version)
        new_version == KnowledgeVersion(new_version_num, document_count, total_size_bytes)
    IN [kb EXCEPT !.versions = Append(@, new_version)]

KbCreateVersion(kb, document_count, total_size_bytes) ==
    LET new_version_num == NewVersionNum(kb.current_version)
        new_version == KnowledgeVersion(new_version_num, document_count, total_size_bytes)
    IN [kb EXCEPT !.versions = Append(@, new_version),
                  !.current_version = new_version_num]

KbHasVersion(kb, target_version) ==
    \E i \in 1..Len(kb.versions) : kb.versions[i].version = target_version

KbRollbackVersionUnchecked(kb, target_version) ==
    [kb EXCEPT !.current_version = target_version]

KbRollbackVersionTruncates(kb, target_version) ==
    IF KbHasVersion(kb, target_version)
    THEN LET i == CHOOSE j \in 1..Len(kb.versions) : kb.versions[j].version = target_version
         IN [kb EXCEPT !.current_version = target_version,
                       !.versions = SubSeq(@, 1, i)]
    ELSE kb

KbRollbackVersion(kb, target_version) ==
    IF KbHasVersion(kb, target_version)
    THEN [kb EXCEPT !.current_version = target_version]
    ELSE kb

KbEnable(kb) == [kb EXCEPT !.enabled = TRUE, !.status = "active"]

KbDisableKeepsStatus(kb) == [kb EXCEPT !.enabled = FALSE]

KbDisable(kb) == [kb EXCEPT !.enabled = FALSE, !.status = "inactive"]

KbRecordQuery(kb) == [kb EXCEPT !.query_count = @ + 1]

\* ------------------------------------------------------------- manager.py
Stored(kb_id) == kb_id \in DOMAIN knowledge_bases

Put(kbs, kb_id, kb) == [i \in DOMAIN kbs \cup {kb_id} |-> IF i = kb_id THEN kb ELSE kbs[i]]

RemoveEverything(kbs, kb_id) == [i \in {} |-> kbs[i]]

Remove(kbs, kb_id) == [i \in DOMAIN kbs \ {kb_id} |-> kbs[i]]

ManagerRecordQueryUpserts(kbs, kb_id, success) ==
    IF kb_id \in DOMAIN kbs THEN Put(kbs, kb_id, KbRecordQuery(kbs[kb_id]))
    ELSE Put(kbs, kb_id, KbRecordQuery(NewKnowledgeBase("docs")))

\* record_query(kb_id, success, latency_ms) on the store kbs
ManagerRecordQuery(kbs, kb_id, success) ==
    IF kb_id \in DOMAIN kbs THEN Put(kbs, kb_id, KbRecordQuery(kbs[kb_id])) ELSE kbs

CreateKnowledgeBase ==
    /\ ~inflight.active
    /\ next_kb_id <= Len(KbIds)
    /\ \E name \in KbNames :
       LET kb == KbCreateVersion(NewKnowledgeBase(name), 0, 0)
           kb_id == KbIds[next_kb_id]
       IN /\ knowledge_bases' = Put(knowledge_bases, kb_id, kb)
          /\ last' = [op |-> "create_knowledge_base", kb_id |-> kb_id]
          /\ run_start' = [run_start EXCEPT ![kb_id] = 0]
          /\ run_creates' = [run_creates EXCEPT ![kb_id] = 1]
    /\ next_kb_id' = next_kb_id + 1
    /\ UNCHANGED <<registry, inflight, runner_calls, restVars>>

DeleteKnowledgeBase(kb_id) ==
    /\ ~inflight.active
    /\ knowledge_bases' = IF Stored(kb_id) THEN Remove(knowledge_bases, kb_id)
                          ELSE knowledge_bases
    /\ metrics' = IF kb_id \in DOMAIN metrics THEN Remove(metrics, kb_id) ELSE metrics
    /\ last' = [op |-> "delete_knowledge_base", returned |-> Stored(kb_id)]
    /\ connector_created' =
           [c \in ConnectorIdUniverse |->
              IF Stored(kb_id) /\ HasConnector(knowledge_bases[kb_id], c) THEN 0
              ELSE connector_created[c]]
    /\ UNCHANGED <<registry, next_kb_id, inflight, historyVars,
                   next_connector_id, now, travel, calls>>

EnableKnowledgeBase(kb_id) ==
    /\ ~inflight.active
    /\ knowledge_bases' = IF Stored(kb_id)
                          THEN Put(knowledge_bases, kb_id, KbEnable(knowledge_bases[kb_id]))
                          ELSE knowledge_bases
    /\ last' = [op |-> "enable_knowledge_base", returned |-> Stored(kb_id)]
    /\ UNCHANGED <<registry, next_kb_id, inflight, historyVars, restVars>>

DisableKnowledgeBase(kb_id) ==
    /\ ~inflight.active
    /\ knowledge_bases' = IF Stored(kb_id)
                          THEN Put(knowledge_bases, kb_id, KbDisable(knowledge_bases[kb_id]))
                          ELSE knowledge_bases
    /\ last' = [op |-> "disable_knowledge_base", returned |-> Stored(kb_id)]
    /\ UNCHANGED <<registry, next_kb_id, inflight, historyVars, restVars>>

CreateVersion(kb_id, input) ==
    /\ ~inflight.active
    /\ Stored(kb_id) => Len(knowledge_bases[kb_id].versions) < MaxVersions
    /\ IF Stored(kb_id)
       THEN LET kb == KbCreateVersion(knowledge_bases[kb_id],
                                      input.document_count, input.total_size_bytes)
            IN /\ knowledge_bases' = Put(knowledge_bases, kb_id, kb)
               /\ last' = [op |-> "create_version", kb_id |-> kb_id, found |-> TRUE,
                           returned |-> kb.versions[Len(kb.versions)]]
               /\ run_creates' = [run_creates EXCEPT ![kb_id] = @ + 1]
       ELSE /\ last' = [op |-> "create_version", kb_id |-> kb_id, found |-> FALSE]
            /\ UNCHANGED <<knowledge_bases, run_creates>>
    /\ UNCHANGED <<registry, next_kb_id, inflight, run_start, runner_calls, restVars>>

RollbackVersion(kb_id, target_version) ==
    /\ ~inflight.active
    /\ LET ok == Stored(kb_id) /\ KbHasVersion(knowledge_bases[kb_id], target_version)
       IN /\ knowledge_bases' =
                IF Stored(kb_id)
                THEN Put(knowledge_bases, kb_id,
                         KbRollbackVersion(knowledge_bases[kb_id], target_version))
                ELSE knowledge_bases
          /\ last' = [op |-> "rollback_version", kb_id |-> kb_id,
                      target_version |-> target_version, returned |-> ok]
          /\ run_start' = IF ok THEN [run_start EXCEPT ![kb_id] =
                                         Len(knowledge_bases[kb_id].versions)]
                          ELSE run_start
          /\ run_creates' = IF ok THEN [run_creates EXCEPT ![kb_id] = 0] ELSE run_creates
    /\ UNCHANGED <<registry, next_kb_id, inflight, runner_calls, restVars>>

RecordQuery(kb_id, success) ==
    /\ ~inflight.active
    /\ Stored(kb_id) => knowledge_bases[kb_id].query_count < MaxQueryCount
    /\ knowledge_bases' = ManagerRecordQuery(knowledge_bases, kb_id, success)
    /\ last' = [op |-> "record_query", kb_id |-> kb_id, success |-> success]
    /\ UNCHANGED <<registry, next_kb_id, inflight, run_start, run_creates, runner_calls, restVars>>

UpdateKnowledgeBase(kb_id, name) ==
    /\ ~inflight.active
    /\ knowledge_bases' =
           IF Stored(kb_id) /\ name # NoValue
           THEN Put(knowledge_bases, kb_id, [knowledge_bases[kb_id] EXCEPT !.name = name[1]])
           ELSE knowledge_bases
    /\ last' = [op |-> "update_knowledge_base",
                returned |-> IF Stored(kb_id) THEN Some(kb_id) ELSE NoValue]
    /\ UNCHANGED <<registry, next_kb_id, inflight, historyVars, restVars>>

AddConnector(kb_id, auto_sync, sync_interval_minutes) ==
    /\ ~inflight.active
    /\ Stored(kb_id) => next_connector_id <= Len(ConnectorIds)
    /\ IF Stored(kb_id)
       THEN LET connector ==
                    ConnectorConfig(ConnectorIds[next_connector_id], auto_sync,
                                    sync_interval_minutes,
                                    IF auto_sync THEN Some(now + sync_interval_minutes)
                                    ELSE NoValue)
            IN /\ knowledge_bases' =
                      Put(knowledge_bases, kb_id,
                          KbAddConnector(knowledge_bases[kb_id], connector))
               /\ next_connector_id' = next_connector_id + 1
               /\ connector_created' =
                      [connector_created EXCEPT ![connector.connector_id] = now]
               /\ last' = [op |-> "add_connector",
                           returned |-> Some(connector.connector_id)]
       ELSE /\ last' = [op |-> "add_connector", returned |-> NoValue]
            /\ UNCHANGED <<knowledge_bases, next_connector_id, connector_created>>
    /\ UNCHANGED <<registry, next_kb_id, inflight, historyVars, metrics, now, travel,
                   calls>>

RemoveConnector(kb_id, connector_id) ==
    /\ ~inflight.active
    /\ knowledge_bases' =
           IF Stored(kb_id)
           THEN Put(knowledge_bases, kb_id,
                    KbRemoveConnector(knowledge_bases[kb_id], connector_id))
           ELSE knowledge_bases
    /\ last' = [op |-> "remove_connector",
                returned |-> Stored(kb_id) /\ HasConnector(knowledge_bases[kb_id], connector_id)]
    /\ UNCHANGED <<registry, next_kb_id, inflight, historyVars, restVars>>

\* The loop of enable_connector / disable_connector: the first connector
\* with the id gets enabled = value.
SetConnectorEnabled(kb, connector_id, value) ==
    IF HasConnector(kb, connector_id)
    THEN LET i == CHOOSE j \in 1..Len(kb.connectors) :
                      /\ kb.connectors[j].connector_id = connector_id
                      /\ \A k \in 1..(j - 1) : kb.connectors[k].connector_id # connector_id
         IN [kb EXCEPT !.connectors[i].enabled = value]
    ELSE kb

EnableConnector(kb_id, connector_id) ==
    /\ ~inflight.active
    /\ knowledge_bases' =
           IF Stored(kb_id)
           THEN Put(knowledge_bases, kb_id,
                    SetConnectorEnabled(knowledge_bases[kb_id], connector_id, TRUE))
           ELSE knowledge_bases
    /\ last' = [op |-> "enable_connector",
                returned |-> Stored(kb_id) /\ HasConnector(knowledge_bases[kb_id], connector_id)]
    /\ UNCHANGED <<registry, next_kb_id, inflight, historyVars, restVars>>

DisableConnector(kb_id, connector_id) ==
    /\ ~inflight.active
    /\ knowledge_bases' =
           IF Stored(kb_id)
           THEN Put(knowledge_bases, kb_id,
                    SetConnectorEnabled(knowledge_bases[kb_id], connector_id, FALSE))
           ELSE knowledge_bases
    /\ last' = [op |-> "disable_connector",
                returned |-> Stored(kb_id) /\ HasConnector(knowledge_bases[kb_id], connector_id)]
    /\ UNCHANGED <<registry, next_kb_id, inflight, historyVars, restVars>>

ConnectorsToSyncIgnoresEnabled(kb, connector_id) ==
    IF connector_id # NoValue
    THEN { i \in 1..Len(kb.connectors) : kb.connectors[i].connector_id = connector_id[1] }
    ELSE 1..Len(kb.connectors)

\* connectors_to_sync of trigger_sync, as positions in kb.connectors
ConnectorsToSync(kb, connector_id) ==
    IF connector_id # NoValue
    THEN { i \in 1..Len(kb.connectors) :
             kb.connectors[i].connector_id = connector_id[1] /\ kb.connectors[i].enabled }
    ELSE { i \in 1..Len(kb.connectors) : kb.connectors[i].enabled }

SyncConnectorSchedulesAll(c, t) ==
    [c EXCEPT !.last_sync_at = Some(t),
              !.total_syncs = @ + 1,
              !.next_sync_at = Some(t + c.sync_interval_minutes)]

\* The body of the loop over connectors_to_sync, the clock showing t
SyncConnector(c, t) ==
    [c EXCEPT !.last_sync_at = Some(t),
              !.total_syncs = @ + 1,
              !.next_sync_at = IF c.auto_sync THEN Some(t + c.sync_interval_minutes) ELSE @]

KbTriggerSyncAllEnabled(kb, connector_id, t) ==
    LET connectors_to_sync == ConnectorsToSync(kb, connector_id)
    IN [kb EXCEPT !.status = "active",
                  !.connectors = [i \in 1..Len(kb.connectors) |->
                                    IF connectors_to_sync # {} /\ kb.connectors[i].enabled
                                    THEN SyncConnector(kb.connectors[i], t)
                                    ELSE kb.connectors[i]]]

KbTriggerSync(kb, connector_id, t) ==
    LET connectors_to_sync == ConnectorsToSync(kb, connector_id)
    IN [kb EXCEPT !.status = "active",
                  !.connectors = [i \in 1..Len(kb.connectors) |->
                                    IF i \in connectors_to_sync
                                    THEN SyncConnector(kb.connectors[i], t)
                                    ELSE kb.connectors[i]]]

TriggerSync(kb_id, connector_id) ==
    /\ ~inflight.active
    /\ Stored(kb_id) =>
           \A i \in ConnectorsToSync(knowledge_bases[kb_id], connector_id) :
               knowledge_bases[kb_id].connectors[i].total_syncs < MaxSyncs
    /\ last' = [op |-> "trigger_sync",
                returned |-> /\ Stored(kb_id)
                             /\ ConnectorsToSync(knowledge_bases[kb_id], connector_id) # {}]
    /\ knowledge_bases' =
           IF Stored(kb_id)
           THEN Put(knowledge_bases, kb_id,
                    KbTriggerSync(knowledge_bases[kb_id], connector_id, now))
           ELSE knowledge_bases
    /\ UNCHANGED <<registry, next_kb_id, inflight, historyVars, restVars>>

DueOfKbAnyTime(kb_id, kb, t) ==
    LET due == SelectSeq(KbGetActiveConnectors(kb),
                         LAMBDA c : c.auto_sync /\ c.next_sync_at # NoValue)
    IN [i \in 1..Len(due) |-> <<kb_id, due[i].connector_id>>]

\* The inner loop of get_connectors_due_for_sync for one knowledge base
DueOfKb(kb_id, kb, t) ==
    LET due == SelectSeq(KbGetActiveConnectors(kb),
                         LAMBDA c : /\ c.auto_sync
                                    /\ c.next_sync_at # NoValue
                                    /\ c.next_sync_at[1] <= t)
    IN [i \in 1..Len(due) |-> <<kb_id, due[i].connector_id>>]

\* The outer loop: the stored knowledge bases in the order they were
\* inserted, which is the order their ids were handed out.
RECURSIVE DueSyncs(_, _, _)
DueSyncs(kbs, i, t) ==
    IF i > Len(KbIds) THEN <<>>
    ELSE IF KbIds[i] \in DOMAIN kbs /\ kbs[KbIds[i]].enabled
         THEN DueOfKb(KbIds[i], kbs[KbIds[i]], t) \o DueSyncs(kbs, i + 1, t)
         ELSE DueSyncs(kbs, i + 1, t)

GetConnectorsDueForSync ==
    /\ ~inflight.active
    /\ last' = [op |-> "get_connectors_due_for_sync",
                returned |-> DueSyncs(knowledge_bases, 1, now)]
    /\ UNCHANGED <<registry, knowledge_bases, next_kb_id, inflight, historyVars, restVars>>

\* get_metrics(kb_id) without a period: the most recent metrics, or None
GetMetrics(m, kb_id) ==
    IF kb_id \notin DOMAIN m \/ m[kb_id] = <<>> THEN NoValue
    ELSE Some(m[kb_id][Len(m[kb_id])])

\* The clock moves on by a minute between two calls.
Tick ==
    /\ ~inflight.active
    /\ now < MaxTime
    /\ now' = now + 1
    /\ UNCHANGED <<registry, knowledge_bases, next_kb_id, inflight, last, historyVars,
                   next_connector_id, metrics, connector_created, travel, calls>>

\* ------------------------------------------------------------- registry.py
Registered(agent_key) == agent_key \in DOMAIN registry

PutAgent(reg, agent) ==
    [k \in DOMAIN reg \cup {agent.key} |-> IF k = agent.key THEN agent ELSE reg[k]]

RemoveAgent(reg, agent_key) == [k \in DOMAIN reg \ {agent_key} |-> reg[k]]

UsesKnowledgeBases(agent) ==
    agent.use_knowledge_base /\ Len(agent.knowledge_base_ids) > 0

\* The loop over knowledge_base_ids in register: the error of the first id
\* that is not stored or is disabled.
KbValidationErrorFirstOnly(agent) ==
    LET ids == agent.knowledge_base_ids
    IN IF ~UsesKnowledgeBases(agent) THEN "none"
       ELSE IF ~Stored(ids[1]) THEN "ValueError: Knowledge base not found"
       ELSE IF ~knowledge_bases[ids[1]].enabled THEN "ValueError: Knowledge base is disabled"
       ELSE "none"

KbValidationError(agent) ==
    LET ids == agent.knowledge_base_ids
        failing == { i \in 1..Len(ids) :
                       ~Stored(ids[i]) \/ ~knowledge_bases[ids[i]].enabled }
    IN IF UsesKnowledgeBases(agent) /\ failing # {}
       THEN LET i == CHOOSE j \in failing : \A k \in failing : j <= k
            IN IF ~Stored(ids[i]) THEN "ValueError: Knowledge base not found"
               ELSE "ValueError: Knowledge base is disabled"
       ELSE "none"

RegisterErrorNoDuplicateCheck(agent) == KbValidationError(agent)

RegisterError(agent) ==
    IF Registered(agent.key) THEN "ValueError: already registered"
    ELSE KbValidationError(agent)

Register(agent) ==
    /\ ~inflight.active
    /\ LET raised == RegisterError(agent)
       IN /\ registry' = IF raised = "none" THEN PutAgent(registry, agent) ELSE registry
          /\ last' = [op |-> "register", agent |-> agent, raised |-> raised]
    /\ UNCHANGED <<knowledge_bases, next_kb_id, inflight, historyVars, restVars>>

Unregister(agent_key) ==
    /\ ~inflight.active
    /\ registry' = IF Registered(agent_key) THEN RemoveAgent(registry, agent_key)
                   ELSE registry
    /\ last' = [op |-> "unregister", agent_key |-> agent_key,
                returned |-> Registered(agent_key)]
    /\ UNCHANGED <<knowledge_bases, next_kb_id, inflight, historyVars, restVars>>

\* result["metadata"] = result.get("metadata", {}) and the four stamps
StampKeys == {"agent_key", "agent_name", "version", "execution_time_ms"}

StampMetadataNameFromKey(result, agent_key, agent, elapsed_ms) ==
    LET supplied == IF result.has_metadata THEN result.metadata ELSE EmptyDict
    IN [result EXCEPT
          !.has_metadata = TRUE,
          !.metadata = [k \in DOMAIN supplied \cup StampKeys |->
                          CASE k = "agent_key" -> agent_key
                            [] k = "agent_name" -> agent_key
                            [] k = "version" -> agent.version
                            [] k = "execution_time_ms" -> elapsed_ms
                            [] OTHER -> supplied[k]]]

StampMetadata(result, agent_key, agent, elapsed_ms) ==
    LET supplied == IF result.has_metadata THEN result.metadata ELSE EmptyDict
    IN [result EXCEPT
          !.has_metadata = TRUE,
          !.metadata = [k \in DOMAIN supplied \cup StampKeys |->
                          CASE k = "agent_key" -> agent_key
                            [] k = "agent_name" -> agent.name
                            [] k = "version" -> agent.version
                            [] k = "execution_time_ms" -> elapsed_ms
                            [] OTHER -> supplied[k]]]

\* for kb_id in agent.knowledge_base_ids: record_query(kb_id, success, latency)
RECURSIVE RecordAll(_, _, _)
RecordAll(kbs, ids, success) ==
    IF ids = <<>> THEN kbs
    ELSE RecordAll(ManagerRecordQuery(kbs, Head(ids), success), Tail(ids), success)

RecordKbQueries(agent, success) ==
    IF UsesKnowledgeBases(agent)
    THEN RecordAll(knowledge_bases, agent.knowledge_base_ids, success)
    ELSE knowledge_bases

Bound(agent, kb_id) ==
    /\ UsesKnowledgeBases(agent)
    /\ \E i \in 1..Len(agent.knowledge_base_ids) : agent.knowledge_base_ids[i] = kb_id

CountFinished(agent) ==
    [id \in KbIdUniverse |-> IF Bound(agent, id) /\ Stored(id) THEN runner_calls[id] + 1
                             ELSE runner_calls[id]]

WithinQueryBound(kbs) == \A id \in DOMAIN kbs : kbs[id].query_count <= MaxQueryCount

\* self._registry.get(agent_key): the definition, or nothing
GetOrAnyAgent(agent_key) ==
    IF Registered(agent_key) THEN <<registry[agent_key]>>
    ELSE IF DOMAIN registry # {} THEN <<registry[CHOOSE k \in DOMAIN registry : TRUE]>>
    ELSE <<>>

Get(agent_key) ==
    IF Registered(agent_key) THEN <<registry[agent_key]>> ELSE <<>>

\* A context is a dict: a function on its keys. Under "knowledge_bases" it
\* holds a list; the list the registry puts there has, for each id, what
\* get_knowledge_base returns: the knowledge base, or None.
ContextOr(context) ==
    IF context = NoValue \/ DOMAIN context[1] = {} THEN EmptyDict ELSE context[1]

ResolvedStoredOnly(ids) ==
    LET stored == SelectSeq(ids, Stored)
    IN [i \in 1..Len(stored) |-> Some(knowledge_bases[stored[i]])]

Resolved(ids) ==
    [i \in 1..Len(ids) |-> IF Stored(ids[i]) THEN Some(knowledge_bases[ids[i]]) ELSE NoValue]

\* exec_context = context or {}, and the injection under "knowledge_bases"
ExecContextKeepsCallers(agent, context) ==
    LET exec_context == ContextOr(context)
    IN IF UsesKnowledgeBases(agent) /\ "knowledge_bases" \notin DOMAIN exec_context
       THEN [k \in DOMAIN exec_context \cup {"knowledge_bases"} |->
                IF k = "knowledge_bases" THEN Resolved(agent.knowledge_base_ids)
                ELSE exec_context[k]]
       ELSE exec_context

ExecContext(agent, context) ==
    LET exec_context == ContextOr(context)
    IN IF UsesKnowledgeBases(agent)
       THEN [k \in DOMAIN exec_context \cup {"knowledge_bases"} |->
                IF k = "knowledge_bases" THEN Resolved(agent.knowledge_base_ids)
                ELSE exec_context[k]]
       ELSE exec_context

\* execute_agent up to the call of the runner: resolve the agent, take the
\* start time, hand control to the runner.
ExecuteAgent(agent_key, context) ==
    /\ ~inflight.active
    /\ LET agent == Get(agent_key)
       IN IF agent # <<>>
          THEN /\ inflight' = [active |-> TRUE, agent_key |-> agent_key,
                               agent |-> agent[1], context |-> context,
                               exec_context |-> ExecContext(agent[1], context)]
               /\ last' = [op |-> "execute_agent", agent_key |-> agent_key,
                           runner_invoked |-> TRUE, raised |-> "pending"]
          ELSE /\ last' = [op |-> "execute_agent", agent_key |-> agent_key,
                           runner_invoked |-> FALSE,
                           raised |-> "ValueError: Unknown agent"]
               /\ UNCHANGED inflight
    /\ UNCHANGED <<registry, knowledge_bases, next_kb_id, historyVars, restVars>>

\* (datetime.utcnow() - start_time).total_seconds() * 1000, the clock having
\* advanced by d seconds since start_time was taken.
ElapsedMs(d) == d * 1000

\* The runner returns after d seconds: the try block from line 157 on.
RunnerReturns(result, d) ==
    /\ inflight.active
    /\ knowledge_bases' = RecordKbQueries(inflight.agent, TRUE)
    /\ WithinQueryBound(knowledge_bases')
    /\ last' = [op |-> "execute_agent", agent_key |-> inflight.agent_key,
                runner_invoked |-> TRUE, raised |-> "none", supplied |-> result,
                returned |-> StampMetadata(result, inflight.agent_key, inflight.agent,
                                           ElapsedMs(d))]
    /\ runner_calls' = CountFinished(inflight.agent)
    /\ inflight' = Idle
    /\ UNCHANGED <<registry, next_kb_id, run_start, run_creates, restVars>>

\* The error execute_agent lets out when the runner raised error: the
\* except block re-raises what it caught.
Reraised(error) == error

\* The runner raises an Exception after d seconds: the except block.
RunnerRaises(error, d) ==
    /\ inflight.active
    /\ knowledge_bases' = RecordKbQueries(inflight.agent, FALSE)
    /\ WithinQueryBound(knowledge_bases')
    /\ last' = [op |-> "execute_agent", agent_key |-> inflight.agent_key,
                runner_invoked |-> TRUE, raised |-> Reraised(error),
                runner_raised |-> error]
    /\ runner_calls' = CountFinished(inflight.agent)
    /\ inflight' = Idle
    /\ UNCHANGED <<registry, next_kb_id, run_start, run_creates, restVars>>

\* The runner raises what "except Exception" does not catch.
RunnerRaisesBaseException(error, d) ==
    /\ inflight.active
    /\ last' = [op |-> "execute_agent", agent_key |-> inflight.agent_key,
                runner_invoked |-> TRUE, raised |-> error, runner_raised |-> error]
    /\ inflight' = Idle
    /\ UNCHANGED <<registry, knowledge_bases, next_kb_id, historyVars, restVars>>

\* ------------------------------------------------------------- registry.py, concurrent calls
\* run_agent is a plain def endpoint: the server runs each request on a
\* thread of its pool, so several execute_agent calls run at once on the one
\* registry and the one manager. A call is followed here statement by
\* statement where it touches shared state: query_count += 1 reads the
\* counter and then writes it.
Threads == 1..MaxThreads

NoCall ==
    [pc |-> "idle", agent_key |-> "", agent |-> NoValue, success |-> FALSE,
     raised |-> "none", result |-> NoValue, todo |-> <<>>, loaded |-> NoValue,
     recorded |-> 0]

\* agent = self.get(agent_key); if not agent: raise ValueError
CallExecuteAgent(t, agent_key) ==
    /\ calls[t].pc = "idle"
    /\ LET agent == Get(agent_key)
       IN calls' = [calls EXCEPT ![t] =
            IF agent # <<>>
            THEN [NoCall EXCEPT !.pc = "runner", !.agent_key = agent_key, !.agent = agent]
            ELSE [NoCall EXCEPT !.pc = "finished", !.agent_key = agent_key,
                                !.raised = "ValueError: Unknown agent"]]
    /\ UNCHANGED <<registry, knowledge_bases, next_kb_id, inflight, last, historyVars,
                   next_connector_id, metrics, now, connector_created, travel>>

\* The ids the loop "for kb_id in agent.knowledge_base_ids" will go through.
ToRecord(agent) == IF UsesKnowledgeBases(agent) THEN agent.knowledge_base_ids ELSE <<>>

AfterRunner(call, success) ==
    [call EXCEPT !.success = success,
                 !.todo = ToRecord(call.agent[1]),
                 !.pc = IF ToRecord(call.agent[1]) = <<>> THEN "finished" ELSE "record"]

\* The runner of thread t returns: the result is stamped.
CallRunnerReturns(t, result, d) ==
    /\ calls[t].pc = "runner"
    /\ calls' = [calls EXCEPT ![t] =
          AfterRunner([calls[t] EXCEPT
                          !.result = Some(StampMetadata(result, calls[t].agent_key,
                                                        calls[t].agent[1], ElapsedMs(d)))],
                      TRUE)]
    /\ UNCHANGED <<registry, knowledge_bases, next_kb_id, inflight, last, historyVars,
                   next_connector_id, metrics, now, connector_created, travel>>

\* The runner of thread t raises an Exception.
CallRunnerRaises(t, error) ==
    /\ calls[t].pc = "runner"
    /\ calls' = [calls EXCEPT ![t] =
          AfterRunner([calls[t] EXCEPT !.raised = Reraised(error)], FALSE)]
    /\ UNCHANGED <<registry, knowledge_bases, next_kb_id, inflight, last, historyVars,
                   next_connector_id, metrics, now, connector_created, travel>>

\* The runner of thread t raises what "except Exception" does not catch.
CallRunnerRaisesBaseException(t, error) ==
    /\ calls[t].pc = "runner"
    /\ calls' = [calls EXCEPT ![t] = [@ EXCEPT !.pc = "finished", !.raised = error]]
    /\ UNCHANGED <<registry, knowledge_bases, next_kb_id, inflight, last, historyVars,
                   next_connector_id, metrics, now, connector_created, travel>>

NextId(call) ==
    [call EXCEPT !.todo = Tail(@), !.loaded = NoValue,
                 !.pc = IF Tail(call.todo) = <<>> THEN "finished" ELSE "record"]

\* record_query up to the read of self.query_count: the knowledge base is
\* looked up, an id that is not stored is skipped. recorded counts the
\* record_query calls of this thread that found their knowledge base.
CallRecordLoad(t) ==
    /\ calls[t].pc = "record"
    /\ LET kb_id == Head(calls[t].todo)
       IN calls' = [calls EXCEPT ![t] =
            IF Stored(kb_id)
            THEN [@ EXCEPT !.pc = "store", !.recorded = @ + 1,
                           !.loaded = Some(knowledge_bases[kb_id].query_count)]
            ELSE NextId(@)]
    /\ UNCHANGED <<registry, knowledge_bases, next_kb_id, inflight, last, historyVars,
                   next_connector_id, metrics, now, connector_created, travel>>

\* The write of self.query_count: what was read, plus one.
CallRecordStore(t) ==
    /\ calls[t].pc = "store"
    /\ LET kb_id == Head(calls[t].todo)
       IN knowledge_bases' =
            IF Stored(kb_id)
            THEN Put(knowledge_bases, kb_id,
                     [knowledge_bases[kb_id] EXCEPT !.query_count = calls[t].loaded[1] + 1])
            ELSE knowledge_bases
    /\ calls' = [calls EXCEPT ![t] = NextId(@)]
    /\ UNCHANGED <<registry, next_kb_id, inflight, last, historyVars,
                   next_connector_id, metrics, now, connector_created, travel>>

\* ------------------------------------------------------------- registry.py, listings
\* Two more definitions with every list field given: one with two enabled
\* triggers of one type and a disabled one of another, one whose manual
\* trigger is disabled.
DigestAgent ==
    PostInit([runner |-> "runner of digest_agent", key |-> "digest_agent", name |-> "Daily Digest", version |-> "1.0.0",
              use_knowledge_base |-> FALSE, knowledge_base_ids |-> <<>>,
              agent_type |-> "workflow", capabilities |-> Some(<<"web_search", "scheduling">>),
              triggers |-> Some(<<Trigger("scheduled", TRUE), Trigger("scheduled", TRUE),
                                  Trigger("webhook", FALSE)>>),
              tags |-> Some(<<"daily", "travel">>)])

HookAgent ==
    PostInit([runner |-> "runner of hook_agent", key |-> "hook_agent", name |-> "Webhook Relay", version |-> "1.0.0",
              use_knowledge_base |-> FALSE, knowledge_base_ids |-> <<>>,
              agent_type |-> "workflow", capabilities |-> Some(<<"api_integration">>),
              triggers |-> Some(<<Trigger("manual", FALSE), Trigger("webhook", TRUE)>>),
              tags |-> Some(<<"daily">>)])

CatalogAgents == {TravelAgent, ResearchAgent(FALSE, <<>>), DigestAgent, HookAgent}

\* self._registry.values(): the registered definitions in the order of the
\* dict. The order is that of registration; the listings below only pass it
\* on, so it is fixed here to the order of KeyOrder.
KeyOrder ==
    <<"travel_planning_agent", "research_agent", "planner_agent", "digest_agent",
      "hook_agent">>

RECURSIVE ValuesFrom(_)
ValuesFrom(i) ==
    IF i > Len(KeyOrder) THEN <<>>
    ELSE (IF Registered(KeyOrder[i]) THEN <<registry[KeyOrder[i]]>> ELSE <<>>)
             \o ValuesFrom(i + 1)

Values == ValuesFrom(1)

\* x in list
InList(x, list) == \E i \in DOMAIN list : list[i] = x

\* "if tag:" and its like: None and the empty string are falsy, a member of
\* an Enum never is.
Truthy(opt) == opt # NoValue /\ opt # Some("")

\* list_all: the three filters, one after the other.
ListAllTagOnly(agent_type, capability, tag) ==
    LET agents == Values
    IN IF Truthy(tag) THEN SelectSeq(agents, LAMBDA a : InList(tag[1], a.tags))
       ELSE IF Truthy(capability)
            THEN SelectSeq(agents, LAMBDA a : InList(capability[1], a.capabilities))
       ELSE IF Truthy(agent_type)
            THEN SelectSeq(agents, LAMBDA a : a.agent_type = agent_type[1])
       ELSE agents

ListAll(agent_type, capability, tag) ==
    LET agents == Values
        by_type == IF Truthy(agent_type)
                   THEN SelectSeq(agents, LAMBDA a : a.agent_type = agent_type[1])
                   ELSE agents
        by_capability == IF Truthy(capability)
                         THEN SelectSeq(by_type, LAMBDA a : InList(capability[1], a.capabilities))
                         ELSE by_type
    IN IF Truthy(tag) THEN SelectSeq(by_capability, LAMBDA a : InList(tag[1], a.tags))
       ELSE by_capability

\* to_model_selector_format: "id" is f"agent:{self.key}", kept as the two
\* parts of the string; of the other entries those that copy a field.
ToModelSelectorFormatBareKey(agent) ==
    [id |-> <<"", agent.key>>, name |-> agent.name, provider |-> "AgentHub",
     type |-> "agent", capabilities |-> agent.capabilities, version |-> agent.version]

ToModelSelectorFormat(agent) ==
    [id |-> <<"agent:", agent.key>>, name |-> agent.name, provider |-> "AgentHub",
     type |-> "agent", capabilities |-> agent.capabilities, version |-> agent.version]

ListForModelSelector ==
    [i \in 1..Len(Values) |-> ToModelSelectorFormat(Values[i])]

\* The inner loop of get_agents_with_trigger over agent.triggers from the
\* i-th on: the agent is appended at the first trigger that matches, and the
\* break leaves the loop.
RECURSIVE AppendedNoBreak(_, _, _)
AppendedNoBreak(agent, trigger_type, i) ==
    IF i > Len(agent.triggers) THEN <<>>
    ELSE (IF agent.triggers[i].trigger_type = trigger_type /\ agent.triggers[i].enabled
          THEN <<agent>> ELSE <<>>) \o AppendedNoBreak(agent, trigger_type, i + 1)

RECURSIVE Appended(_, _, _)
Appended(agent, trigger_type, i) ==
    IF i > Len(agent.triggers) THEN <<>>
    ELSE IF agent.triggers[i].trigger_type = trigger_type /\ agent.triggers[i].enabled
         THEN <<agent>>
         ELSE Appended(agent, trigger_type, i + 1)

RECURSIVE WithTriggerFrom(_, _)
WithTriggerFrom(trigger_type, n) ==
    IF n > Len(Values) THEN <<>>
    ELSE Appended(Values[n], trigger_type, 1) \o WithTriggerFrom(trigger_type, n + 1)

GetAgentsWithTrigger(trigger_type) == WithTriggerFrom(trigger_type, 1)

\* get_runner: self._registry[agent_key].runner, a KeyError becoming
\* ValueError("Unknown agent").
GetRunner(agent_key) ==
    IF Registered(agent_key)
    THEN [raised |-> "none", returned |-> Some(registry[agent_key].runner)]
    ELSE [raised |-> "ValueError: Unknown agent", returned |-> NoValue]

\* to_metadata, of its entries those that copy a field modelled here.
ToMetadata(agent) ==
    [key |-> agent.key, name |-> agent.name, type |-> agent.agent_type,
     capabilities |-> agent.capabilities, use_knowledge_base |-> agent.use_knowledge_base,
     knowledge_base_count |-> Len(agent.knowledge_base_ids), version |-> agent.version,
     tags |-> agent.tags]

\* list_agents(): list_metadata of the global registry
ListAgents == [i \in 1..Len(Values) |-> ToMetadata(Values[i])]

GetAgentRunnerCalled(agent_key) ==
    /\ last' = [op |-> "get_agent_runner", agent_key |-> agent_key,
                raised |-> GetRunner(agent_key).raised,
                returned |-> GetRunner(agent_key).returned]
    /\ UNCHANGED <<registry, knowledge_bases, next_kb_id, inflight, historyVars, restVars>>

ListAgentsCalled ==
    /\ last' = [op |-> "list_agents", returned |-> ListAgents]
    /\ UNCHANGED <<registry, knowledge_bases, next_kb_id, inflight, historyVars, restVars>>

\* The three listings as calls: each returns its list and writes nothing.
ListAllCalled(agent_type, capability, tag) ==
    /\ last' = [op |-> "list_all", agent_type |-> agent_type, capability |-> capability,
                tag |-> tag, returned |-> ListAll(agent_type, capability, tag)]
    /\ UNCHANGED <<registry, knowledge_bases, next_kb_id, inflight, historyVars, restVars>>

ListForModelSelectorCalled ==
    /\ last' = [op |-> "list_for_model_selector", returned |-> ListForModelSelector]
    /\ UNCHANGED <<registry, knowledge_bases, next_kb_id, inflight, historyVars, restVars>>

GetAgentsWithTriggerCalled(trigger_type) ==
    /\ last' = [op |-> "get_agents_with_trigger", trigger_type |-> trigger_type,
                returned |-> GetAgentsWithTrigger(trigger_type)]
    /\ UNCHANGED <<registry, knowledge_bases, next_kb_id, inflight, historyVars, restVars>>

\* The arguments callers pass to the listings.
TriggerTypes == {"manual", "scheduled", "webhook", "connector_event"}
TypeFilters == {NoValue} \cup {Some(t) : t \in {"conversational", "research", "workflow"}}
CapabilityFilters == {NoValue} \cup {Some(c) : c \in {"web_search", "scheduling"}}
TagFilters == {NoValue} \cup {Some(t) : t \in {"", "travel", "daily"}}

\* ------------------------------------------------------------- agenthub/api.py
\* The errors that are instances of ValueError: the registry's own for an
\* unknown key, and the one run_travel_agent raises for an empty query.
ValueErrors == {"ValueError: Unknown agent", "ValueError: Query must be a non-empty string"}

\* run_agent: the status of the response, given what execute_agent let out.
\* except ValueError comes first, except Exception second; what neither
\* catches leaves the endpoint unanswered (0).
RunAgentStatus(raised) ==
    IF raised = "none" THEN 200
    ELSE IF raised \in ValueErrors THEN 404
    ELSE IF raised \in RunnerBaseErrors THEN 0
    ELSE 500

\* ------------------------------------------------------------- travel_agent.py
\* Text is a sequence of characters, so that strip() is computed.
Queries == { <<>>, <<" ">>, <<"a">>, <<" ", "a", " ">> }

RECURSIVE LStrip(_)
LStrip(s) == IF s # <<>> /\ Head(s) = " " THEN LStrip(Tail(s)) ELSE s

RECURSIVE RStrip(_)
RStrip(s) ==
    IF s # <<>> /\ s[Len(s)] = " " THEN RStrip(SubSeq(s, 1, Len(s) - 1)) ELSE s

StripNothing(s) == s

Strip(s) == RStrip(LStrip(s))

\* What a run finds in its process: the two API keys in os.environ, and
\* whether the google-generativeai and tavily packages were importable.
Envs == [keys : BOOLEAN, genai : BOOLEAN, tavily : BOOLEAN]

General == <<"g", "e", "n", "e", "r", "a", "l">>
Place == <<"P">>

\* The questions the model may list, in the order it lists them.
Question(i) == <<"question", i>>
QuestionLists == { [i \in 1..n |-> Question(i)] : n \in 0..MaxQuestions }

\* dict.get(key, default) on an optional entry
GetOr(opt, default) == IF opt = NoValue THEN default ELSE opt[1]

PyAndLeftOnly(a, b) == a

\* Python's "a and b" on booleans: a if a is falsy, else b
PyAnd(a, b) == IF a THEN b ELSE a

\* list[:n]
Take(list, n) == SubSeq(list, 1, IF Len(list) < n THEN Len(list) ELSE n)

\* What gemini.generate_content gives back to _analyze_user_query: it raises
\* (ok false), or its text holds no {...}, one that json.loads rejects, or a
\* JSON object in which each key of the prompt's format is present or not.
AnalysisObject(h, n, q, d) ==
    [ok |-> TRUE, json |-> "object", has_destination |-> h,
     needs_clarification |-> n, clarification_questions |-> q,
     extracted_preferences |-> d]

AnalysisOther(ok, json) ==
    [ok |-> ok, json |-> json, has_destination |-> NoValue,
     needs_clarification |-> NoValue, clarification_questions |-> NoValue,
     extracted_preferences |-> NoValue]

Analyses ==
    { AnalysisOther(FALSE, "none"), AnalysisOther(TRUE, "none"),
      AnalysisOther(TRUE, "invalid") }
        \cup { AnalysisObject(h, n, q, d) :
                 h \in {NoValue, Some(TRUE), Some(FALSE)},
                 n \in {NoValue, Some(TRUE), Some(FALSE)},
                 q \in {NoValue} \cup { Some(l) : l \in QuestionLists },
                 d \in {NoValue, Some([destination |-> General]),
                        Some([destination |-> Place])} }

\* What generate_content gives back to the plan and the fallback prompts.
Generations == { [ok |-> TRUE, text |-> "generated"], [ok |-> FALSE, text |-> ""] }

\* What client.search gives back: it raises, or a dict with its "results"
\* and, the call being made with include_answer=True, possibly an "answer".
\* The i-th call's hit, when it has one (it may have up to max_results).
SearchHit(i) == [title |-> <<"title", i>>, url |-> <<"url", i>>, content |-> "c"]
SearchResponses(i) ==
    { [ok |-> FALSE, results |-> <<>>, answer |-> NoValue],
      [ok |-> TRUE, results |-> <<>>, answer |-> NoValue],
      [ok |-> TRUE, results |-> <<SearchHit(i)>>, answer |-> NoValue],
      [ok |-> TRUE, results |-> <<SearchHit(i)>>, answer |-> Some("direct answer")] }

NoAnswer == [kind |-> "none", lines |-> <<>>, intro |-> <<>>, content |-> ""]

\* A TravelState with no key set but "query", the step the run is at, and
\* what the run has done so far: the nodes it entered (visited), the analysis
\* the model gave it, its generate_content and its client.search calls, and
\* the "answer" of each response client.search gave it (provider_answers).
TravelRun(step, query, env) ==
    [step |-> step, query |-> query, env |-> env,
     needs_clarification |-> NoValue, clarification_questions |-> NoValue,
     user_preferences |-> NoValue, search_results |-> NoValue,
     travel_plans |-> NoValue, answer |-> NoValue,
     error |-> "", result |-> NoValue,
     visited |-> <<>>, analysis |-> NoValue, generate_calls |-> 0, retrieval_calls |-> <<>>,
     provider_answers |-> <<>>]

TravelIdle == TravelRun("idle", <<>>, [keys |-> TRUE, genai |-> TRUE, tavily |-> TRUE])

Raise(t, error) == [t EXCEPT !.step = "failed", !.error = error]

otherVars == <<registry, knowledge_bases, next_kb_id, inflight, last,
               next_connector_id, metrics, now, connector_created, historyVars, calls>>

ShouldSearchSkipsSearch(state) ==
    IF GetOr(state.needs_clarification, FALSE) THEN "synthesize" ELSE "create_plans"

\* _should_search: the conditional edge out of "analyze"
ShouldSearch(state) ==
    IF GetOr(state.needs_clarification, FALSE) THEN "synthesize" ELSE "web_search"

\* run_travel_agent up to compiled.invoke(initial)
RunTravelAgent(query, env) ==
    /\ travel.step \in {"idle", "done", "failed"}
    /\ LET normalized_query == Strip(query)
           run == TravelRun("analyze", normalized_query, env)
       IN travel' =
            IF normalized_query = <<>>
            THEN Raise(TravelRun("idle", query, env),
                       "ValueError: Query must be a non-empty string")
            ELSE IF ~env.keys
            THEN Raise(TravelRun("idle", normalized_query, env),
                       "RuntimeError: Missing environment variables")
            ELSE run
    /\ UNCHANGED otherVars

\* The node "analyze", and the routing that follows it.
AnalyzeState(state, a) ==
    IF a.json = "object"
    THEN LET has_destination == GetOr(a.has_destination, FALSE)
         IN [state EXCEPT
                !.needs_clarification =
                    Some(PyAnd(GetOr(a.needs_clarification, FALSE), ~has_destination)),
                !.clarification_questions =
                    Some(Take(GetOr(a.clarification_questions, <<>>), 2)),
                !.user_preferences = Some(a.extracted_preferences)]
    ELSE IF a.json = "invalid"
    THEN [state EXCEPT
            !.needs_clarification = Some(FALSE),
            !.user_preferences = Some(Some([destination |-> General]))]
    ELSE [state EXCEPT
            !.needs_clarification = Some(FALSE),
            !.user_preferences = Some(Some([destination |-> state.query]))]

AnalyzeUserQuery(a) ==
    /\ travel.step = "analyze"
    /\ LET entered == [travel EXCEPT !.visited = Append(@, "analyze")]
           called == [entered EXCEPT !.generate_calls = @ + 1]
           state == AnalyzeState([called EXCEPT !.analysis = Some(a)], a)
       IN travel' =
            IF ~travel.env.genai
            THEN Raise(entered, "RuntimeError: google-generativeai package is required")
            ELSE IF ~a.ok
            THEN Raise(called, "provider error")
            ELSE [state EXCEPT !.step = ShouldSearch(state)]
    /\ UNCHANGED otherVars

\* user_preferences.get("destination", default)
Destination(state, default) ==
    LET preferences == GetOr(GetOr(state.user_preferences, NoValue), [destination |-> default])
    IN preferences.destination

SearchQueries(destination) ==
    << <<destination, "best attractions places to visit 2025">>,
       <<destination, "hotels accommodation recommendations">>,
       <<destination, "local food restaurants must try">>,
       <<destination, "travel tips transportation guide">> >>

RetrievalCall(query) ==
    [query |-> query, search_depth |-> "advanced", max_results |-> 4]

AllResultsAllOrNothing(queries, responses, i) ==
    IF \A j \in 1..2 : responses[j].ok
    THEN responses[1].results \o responses[2].results
    ELSE <<>>

\* The loop of _deep_web_search over search_queries[:2], given what each
\* client.search call gives back.
RECURSIVE AllResults(_, _, _)
AllResults(queries, responses, i) ==
    IF i > Len(queries) THEN <<>>
    ELSE (IF responses[i].ok THEN responses[i].results ELSE <<>>)
            \o AllResults(queries, responses, i + 1)

\* The node "web_search"
DeepWebSearch(responses) ==
    /\ travel.step = "web_search"
    /\ LET entered == [travel EXCEPT !.visited = Append(@, "web_search")]
           queries == Take(SearchQueries(Destination(travel, <<>>)), 2)
       IN /\ Len(responses) = Len(queries)
          /\ \A i \in 1..Len(queries) : responses[i] \in SearchResponses(i)
          /\ travel' =
               IF ~travel.env.tavily
               THEN Raise(entered, "RuntimeError: tavily package is required")
               ELSE [entered EXCEPT
                        !.retrieval_calls =
                            @ \o [i \in 1..Len(queries) |-> RetrievalCall(queries[i])],
                        !.provider_answers =
                            [i \in 1..Len(queries) |-> responses[i].answer],
                        !.search_results = Some(AllResults(queries, responses, 1)),
                        !.step = "create_plans"]
    /\ UNCHANGED otherVars

CreateTravelPlansNoProposal(g) ==
    /\ travel.step = "create_plans"
    /\ LET called == [travel EXCEPT !.visited = Append(@, "create_plans"),
                                    !.generate_calls = @ + 1]
       IN travel' =
            IF ~g.ok
            THEN Raise(called, "provider error")
            ELSE [called EXCEPT !.travel_plans = Some(<<>>), !.step = "synthesize"]
    /\ UNCHANGED otherVars

\* The node "create_plans"
CreateTravelPlans(g) ==
    /\ travel.step = "create_plans"
    /\ LET called == [travel EXCEPT !.visited = Append(@, "create_plans"),
                                    !.generate_calls = @ + 1]
       IN travel' =
            IF ~g.ok
            THEN Raise(called, "provider error")
            ELSE [called EXCEPT
                    !.travel_plans =
                        Some(<<[content |-> g.text, type |-> "comprehensive_plans"]>>),
                    !.step = "synthesize"]
    /\ UNCHANGED otherVars

\* The clarification text: the heading, the questions numbered from 1, the tip.
ClarificationText(questions) ==
    [kind |-> "clarification",
     lines |-> [i \in 1..Len(questions) |-> <<i, questions[i]>>],
     intro |-> <<>>, content |-> ""]

\* The styled header of the plans: it names the destination unless that is
\* empty or "general".
Intro(state) ==
    LET destination == Destination(state, <<>>)
    IN IF destination # <<>> /\ destination # General THEN <<"named", destination>>
       ELSE <<"generic", <<>>>>

\* run_travel_agent's return value, from the final state
TravelResult(state) ==
    [answer |-> GetOr(state.answer, NoAnswer),
     sources |-> LET results == GetOr(state.search_results, <<>>)
                 IN [i \in 1..Len(results) |->
                        [title |-> results[i].title, url |-> results[i].url]]]

Finish(state) == [state EXCEPT !.step = "done", !.result = Some(TravelResult(state))]

\* The node "synthesize", END, and the return of run_travel_agent.
SynthesizeAnswer(g) ==
    /\ travel.step = "synthesize"
    /\ LET entered == [travel EXCEPT !.visited = Append(@, "synthesize")]
           questions == GetOr(entered.clarification_questions, <<>>)
           travel_plans == GetOr(entered.travel_plans, <<>>)
           called == [entered EXCEPT !.generate_calls = @ + 1]
       IN travel' =
            IF entered.answer # NoValue
            THEN Finish(entered)
            ELSE IF GetOr(entered.needs_clarification, FALSE) /\ questions # <<>>
            THEN Finish([entered EXCEPT !.answer = Some(ClarificationText(questions))])
            ELSE IF travel_plans # <<>>
            THEN Finish([entered EXCEPT
                    !.answer = Some([kind |-> "plans", lines |-> <<>>,
                                     intro |-> Intro(entered),
                                     content |-> travel_plans[1].content])])
            ELSE IF ~entered.env.genai
            THEN Raise(entered, "RuntimeError: google-generativeai package is required")
            ELSE IF ~g.ok
            THEN Raise(called, "provider error")
            ELSE Finish([called EXCEPT
                    !.answer = Some([kind |-> "guide", lines |-> <<>>,
                                     intro |-> <<>>, content |-> g.text])])
    /\ UNCHANGED otherVars

\* ------------------------------------------------------------- specifications
Init ==
    /\ registry = PutAgent(EmptyDict, TravelAgent)
    /\ knowledge_bases = [i \in {} |-> 0]
    /\ next_kb_id = 1
    /\ inflight = Idle
    /\ last = [op |-> "init"]
    /\ next_connector_id = 1
    /\ metrics = [i \in {} |-> <<>>]
    /\ now = 0
    /\ connector_created = [c \in ConnectorIdUniverse |-> 0]
    /\ travel = TravelIdle
    /\ calls = [t \in Threads |-> NoCall]
    /\ run_start = [i \in KbIdUniverse |-> 0]
    /\ run_creates = [i \in KbIdUniverse |-> 0]
    /\ runner_calls = [i \in KbIdUniverse |-> 0]

\* The versioning of a knowledge base: the operations that read or write
\* versions and current_version.
NextVersioning ==
    \/ CreateKnowledgeBase
    \/ \E kb_id \in KbIdUniverse : DeleteKnowledgeBase(kb_id)
    \/ \E kb_id \in KbIdUniverse, input \in VersionInputs : CreateVersion(kb_id, input)
    \/ \E kb_id \in KbIdUniverse, t \in TargetVersions : RollbackVersion(kb_id, t)

SpecVersioning == Init /\ [][NextVersioning]_vars

\* The registry and the knowledge bases it validates against and records
\* queries in; versions are not touched by any of these operations.
NextRegistry ==
    \/ \E agent \in AgentDefinitions : Register(agent)
    \/ \E agent_key \in AgentKeys : Unregister(agent_key)
    \/ \E agent_key \in AgentKeys : ExecuteAgent(agent_key, NoValue)
    \/ \E result \in RunnerResults, d \in 0..MaxElapsed : RunnerReturns(result, d)
    \/ \E error \in RunnerErrors, d \in 0..MaxElapsed : RunnerRaises(error, d)
    \/ \E error \in RunnerBaseErrors, d \in 0..MaxElapsed : RunnerRaisesBaseException(error, d)
    \/ CreateKnowledgeBase
    \/ \E kb_id \in KbIdUniverse : DeleteKnowledgeBase(kb_id)
    \/ \E kb_id \in KbIdUniverse : EnableKnowledgeBase(kb_id)
    \/ \E kb_id \in KbIdUniverse : DisableKnowledgeBase(kb_id)

SpecRegistry == Init /\ [][NextRegistry]_vars

\* The sync schedule of the connectors: connectors are added, disabled and
\* synced, knowledge bases are disabled, the clock moves on and the due list
\* is polled.
NextSync ==
    \/ CreateKnowledgeBase
    \/ \E kb_id \in KbIdUniverse : DisableKnowledgeBase(kb_id)
    \/ \E kb_id \in KbIdUniverse, input \in ConnectorInputs :
           AddConnector(kb_id, input.auto_sync, input.sync_interval_minutes)
    \/ \E kb_id \in KbIdUniverse, c \in ConnectorIdUniverse : DisableConnector(kb_id, c)
    \/ \E kb_id \in KbIdUniverse,
          c \in {NoValue} \cup { Some(x) : x \in ConnectorIdUniverse } : TriggerSync(kb_id, c)
    \/ GetConnectorsDueForSync
    \/ Tick

SpecSync == Init /\ [][NextSync]_vars

\* Manual syncs alone: as above, without the polling of the due list.
NextTrigger ==
    \/ CreateKnowledgeBase
    \/ \E kb_id \in KbIdUniverse : DisableKnowledgeBase(kb_id)
    \/ \E kb_id \in KbIdUniverse, input \in ConnectorInputs :
           AddConnector(kb_id, input.auto_sync, input.sync_interval_minutes)
    \/ \E kb_id \in KbIdUniverse, c \in ConnectorIdUniverse : DisableConnector(kb_id, c)
    \/ \E kb_id \in KbIdUniverse,
          c \in {NoValue} \cup { Some(x) : x \in ConnectorIdUniverse } : TriggerSync(kb_id, c)
    \/ Tick

SpecTrigger == Init /\ [][NextTrigger]_vars

\* The life cycle of the knowledge bases: they are created, given
\* connectors, disabled, enabled and deleted while the due list is polled.
NextLifecycle ==
    \/ CreateKnowledgeBase
    \/ \E kb_id \in KbIdUniverse : DeleteKnowledgeBase(kb_id)
    \/ \E kb_id \in KbIdUniverse : EnableKnowledgeBase(kb_id)
    \/ \E kb_id \in KbIdUniverse : DisableKnowledgeBase(kb_id)
    \/ \E kb_id \in KbIdUniverse, input \in ConnectorInputs :
           AddConnector(kb_id, input.auto_sync, input.sync_interval_minutes)
    \/ GetConnectorsDueForSync
    \/ Tick

SpecLifecycle == Init /\ [][NextLifecycle]_vars

\* Every operation of the manager that changes it, on a manager that gets one
\* knowledge base and that one connector: callers name them before they are
\* created, while they are stored and after they are deleted, or name an id
\* that is never stored. The clock stands still.
ManagerTargetVersions == { Tag(1, 1, 0, 1), Tag(1, 9, 9, 9) }

ManagerConnectorInputs == { [auto_sync |-> TRUE, sync_interval_minutes |-> 1] }

NextManager ==
    \/ next_kb_id = 1 /\ CreateKnowledgeBase
    \/ \E kb_id \in KbIdUniverse, name \in UpdateNames : UpdateKnowledgeBase(kb_id, name)
    \/ \E kb_id \in KbIdUniverse : DeleteKnowledgeBase(kb_id)
    \/ \E kb_id \in KbIdUniverse : EnableKnowledgeBase(kb_id)
    \/ \E kb_id \in KbIdUniverse : DisableKnowledgeBase(kb_id)
    \/ \E kb_id \in KbIdUniverse, input \in VersionInputs : CreateVersion(kb_id, input)
    \/ \E kb_id \in KbIdUniverse, t \in ManagerTargetVersions : RollbackVersion(kb_id, t)
    \/ /\ next_connector_id = 1
       /\ \E kb_id \in KbIdUniverse, input \in ManagerConnectorInputs :
              AddConnector(kb_id, input.auto_sync, input.sync_interval_minutes)
    \/ \E kb_id \in KbIdUniverse, c \in ConnectorIdUniverse : RemoveConnector(kb_id, c)
    \/ \E kb_id \in KbIdUniverse, c \in ConnectorIdUniverse : EnableConnector(kb_id, c)
    \/ \E kb_id \in KbIdUniverse, c \in ConnectorIdUniverse : DisableConnector(kb_id, c)
    \/ \E kb_id \in KbIdUniverse,
          c \in {NoValue} \cup { Some(x) : x \in ConnectorIdUniverse } : TriggerSync(kb_id, c)
    \/ \E kb_id \in KbIdUniverse, success \in BOOLEAN : RecordQuery(kb_id, success)

SpecManager == Init /\ [][NextManager]_vars

\* Syncs of one connector by its id, at one instant: two knowledge bases
\* and their connectors, some of them disabled.
NextNamedSync ==
    \/ CreateKnowledgeBase
    \/ \E kb_id \in KbIdUniverse, input \in ConnectorInputs :
           AddConnector(kb_id, input.auto_sync, input.sync_interval_minutes)
    \/ \E kb_id \in KbIdUniverse, c \in ConnectorIdUniverse : DisableConnector(kb_id, c)
    \/ \E kb_id \in KbIdUniverse, c \in ConnectorIdUniverse : TriggerSync(kb_id, Some(c))

SpecNamedSync == Init /\ [][NextNamedSync]_vars

\* The scheduler: it polls the due list and syncs each pair the list
\* reports, while the clock moves on. The connectors have auto_sync and an
\* interval the caller chose: add_connector takes any int.
SchedulerIntervals == {0, 1}

NextScheduler ==
    \/ next_kb_id = 1 /\ CreateKnowledgeBase
    \/ \E kb_id \in KbIdUniverse, interval \in SchedulerIntervals :
           AddConnector(kb_id, TRUE, interval)
    \/ GetConnectorsDueForSync
    \/ \E i \in 1..Len(DueSyncs(knowledge_bases, 1, now)) :
           LET pair == DueSyncs(knowledge_bases, 1, now)[i]
           IN TriggerSync(pair[1], Some(pair[2]))
    \/ Tick

SpecScheduler == Init /\ [][NextScheduler]_vars

\* One run of the travel agent after another.
NextTravel ==
    \/ \E query \in Queries, env \in Envs : RunTravelAgent(query, env)
    \/ \E a \in Analyses : AnalyzeUserQuery(a)
    \/ \E r1 \in SearchResponses(1), r2 \in SearchResponses(2) :
            DeepWebSearch(<<r1, r2>>)
    \/ \E g \in Generations : CreateTravelPlans(g)
    \/ \E g \in Generations : SynthesizeAnswer(g)

SpecTravel == Init /\ [][NextTravel]_vars

\* compiled.invoke runs the node the graph is at until it returns or raises,
\* and the caller then is free to start the next run.
SpecTravelFair == SpecTravel /\ WF_vars(NextTravel)

\* A second agent bound to the first knowledge base.
PlannerAgent ==
    PostInit([runner |-> "runner of planner_agent", key |-> "planner_agent", name |-> "Planner", version |-> "0.3.0",
              use_knowledge_base |-> TRUE, knowledge_base_ids |-> <<KbIds[1]>>,
              agent_type |-> "conversational", capabilities |-> NoValue,
              triggers |-> NoValue, tags |-> NoValue])

ConcurrentAgents == {ResearchAgent(TRUE, <<KbIds[1]>>), PlannerAgent}

\* Requests that run at once: one knowledge base, the agents bound to it,
\* and one execute_agent call per thread.
NextConcurrent ==
    \/ next_kb_id = 1 /\ CreateKnowledgeBase
    \/ \E agent \in ConcurrentAgents : Register(agent)
    \/ \E t \in Threads, agent_key \in {a.key : a \in ConcurrentAgents} :
           CallExecuteAgent(t, agent_key)
    \/ \E t \in Threads, result \in RunnerResults : CallRunnerReturns(t, result, 0)
    \/ \E t \in Threads, error \in RunnerErrors : CallRunnerRaises(t, error)
    \/ \E t \in Threads, error \in RunnerBaseErrors : CallRunnerRaisesBaseException(t, error)
    \/ \E t \in Threads : CallRecordLoad(t)
    \/ \E t \in Threads : CallRecordStore(t)

SpecConcurrent == Init /\ [][NextConcurrent]_vars

\* Executions with a context, of agents whose knowledge bases come and go
\* after the registration.
ContextAgents ==
    { ResearchAgent(TRUE, <<KbIds[1], KbIds[2]>>), ResearchAgent(FALSE, <<KbIds[1]>>),
      ResearchAgent(TRUE, <<>>) }

NextContext ==
    \/ CreateKnowledgeBase
    \/ \E kb_id \in KbIdUniverse : DeleteKnowledgeBase(kb_id)
    \/ \E kb_id \in KbIdUniverse : DisableKnowledgeBase(kb_id)
    \/ \E agent \in ContextAgents : Register(agent)
    \/ Unregister("research_agent")
    \/ \E agent_key \in AgentKeys, context \in Contexts : ExecuteAgent(agent_key, context)
    \/ \E result \in RunnerResults : RunnerReturns(result, 0)
    \/ \E error \in RunnerErrors : RunnerRaises(error, 0)

SpecContext == Init /\ [][NextContext]_vars

\* The catalog: definitions come and go, and the listings are read.
NextCatalog ==
    \/ \E agent \in CatalogAgents : Register(agent)
    \/ \E agent \in CatalogAgents : Unregister(agent.key)
    \/ \E agent_type \in TypeFilters, capability \in CapabilityFilters, tag \in TagFilters :
           ListAllCalled(agent_type, capability, tag)
    \/ ListForModelSelectorCalled
    \/ \E trigger_type \in TriggerTypes : GetAgentsWithTriggerCalled(trigger_type)
    \/ \E agent_key \in {a.key : a \in CatalogAgents} \cup {"travel_tavily"} :
           GetAgentRunnerCalled(agent_key)
    \/ ListAgentsCalled

SpecCatalog == Init /\ [][NextCatalog]_vars

Next ==
    NextRegistry \/ NextVersioning \/ NextSync \/ NextTrigger \/ NextLifecycle
        \/ NextManager \/ NextTravel \/ NextConcurrent \/ NextCatalog
        \/ NextContext \/ NextNamedSync \/ NextScheduler

Spec == Init /\ [][Next]_vars

\* ------------------------------------------------------------- versioning claims
LastVersion(kb) == kb.versions[Len(kb.versions)]

Tags(kb) == { kb.versions[i].version : i \in 1..Len(kb.versions) }

C8_PatchFollowsLastAppended ==
    \A id \in DOMAIN knowledge_bases :
        LET kb == knowledge_bases[id]
        IN /\ \A i \in 1..(Len(kb.versions) - 1) :
                  kb.versions[i + 1].version.micro = kb.versions[i].version.micro + 1
           /\ \A i, j \in 1..Len(kb.versions) :
                  i < j => kb.versions[i].version # kb.versions[j].version

\* C9: rollback_version(kb, t) on a stored kb returns false and keeps
\* current_version when no version has tag t, returns true and sets
\* current_version to t when one has, and never changes the versions list.
C9_Rollback ==
    [][ (last'.op = "rollback_version" /\ last'.kb_id \in DOMAIN knowledge_bases) =>
          LET id == last'.kb_id
              t == last'.target_version
              before == knowledge_bases[id]
              after == knowledge_bases'[id]
          IN /\ id \in DOMAIN knowledge_bases'
             /\ after.versions = before.versions
             /\ t \in Tags(before) => /\ last'.returned = TRUE
                                      /\ after.current_version = t
             /\ t \notin Tags(before) => /\ last'.returned = FALSE
                                         /\ after.current_version = before.current_version
      ]_vars

\* A rollback that succeeded and moved current_version to a tag older than
\* the last appended one.
C9_Witness ==
    /\ last.op = "rollback_version"
    /\ last.returned = TRUE
    /\ knowledge_bases[last.kb_id].current_version = last.target_version
    /\ LastVersion(knowledge_bases[last.kb_id]).version # last.target_version
    /\ Len(knowledge_bases[last.kb_id].versions) >= 2

\* C10: current_version of a stored knowledge base is the tag of a version in
\* its history, and is the tag of the last one whenever no rollback has
\* succeeded since the last create_version.
C10_CurrentVersionInHistory ==
    \A id \in DOMAIN knowledge_bases :
        LET kb == knowledge_bases[id]
        IN /\ kb.current_version \in Tags(kb)
           /\ run_creates[id] > 0 => kb.current_version = LastVersion(kb).version

\* A knowledge base that was rolled back and then given a new version, and
\* one that sits on a rolled-back version, both seen by the invariant.
C10_Witness ==
    \E id \in DOMAIN knowledge_bases :
        /\ run_start[id] > 0
        /\ run_creates[id] > 0
        /\ Len(knowledge_bases[id].versions) >= 3

\* ------------------------------------------------------------- registry claims
DuplicateKey == "ValueError: already registered"
UnknownKnowledgeBase == "ValueError: Knowledge base not found"
DisabledKnowledgeBase == "ValueError: Knowledge base is disabled"
UnknownAgent == "ValueError: Unknown agent"

Ids(agent) == { agent.knowledge_base_ids[i] : i \in 1..Len(agent.knowledge_base_ids) }

\* C1: register of a definition whose key is already registered fails with
\* the duplicate-key error and leaves the registry (its keys and the
\* definition bound to each) as it was.
C1_DuplicateKeyRejected ==
    [][ (last'.op = "register" /\ last'.agent.key \in DOMAIN registry) =>
            /\ last'.raised = DuplicateKey
            /\ registry' = registry
      ]_vars

\* A register call that failed on a registered key while offering a
\* definition other than the one the key is bound to.
C1_Witness ==
    /\ last.op = "register"
    /\ last.raised = DuplicateKey
    /\ last.agent.key \in DOMAIN registry
    /\ registry[last.agent.key] # last.agent

\* C2: register of a definition under a free key, with use_knowledge_base
\* and a non-empty knowledge_base_ids, fails when a listed id is not stored
\* (unknown knowledge base) or names a disabled one (disabled knowledge
\* base); after the failure the key is not registered and no knowledge base
\* has changed.
C2_KbValidation ==
    [][ (/\ last'.op = "register"
         /\ last'.agent.key \notin DOMAIN registry
         /\ last'.agent.use_knowledge_base
         /\ last'.agent.knowledge_base_ids # <<>>) =>
            LET agent == last'.agent
                unknown == { id \in Ids(agent) : id \notin DOMAIN knowledge_bases }
                disabled == { id \in Ids(agent) \ unknown : ~knowledge_bases[id].enabled }
            IN /\ (unknown \cup disabled # {}) =>
                      /\ last'.raised \in {UnknownKnowledgeBase, DisabledKnowledgeBase}
                      /\ last'.raised = UnknownKnowledgeBase => unknown # {}
                      /\ last'.raised = DisabledKnowledgeBase => disabled # {}
                      /\ agent.key \notin DOMAIN registry'
                      /\ registry' = registry
               /\ (unknown \cup disabled = {}) =>
                      /\ last'.raised = "none"
                      /\ registry'[agent.key] = agent
               /\ knowledge_bases' = knowledge_bases
      ]_vars

\* A registration refused because of its second knowledge base, the first
\* one being stored and enabled: nothing of it is in the registry.
C2_Witness ==
    /\ last.op = "register"
    /\ last.raised \in {UnknownKnowledgeBase, DisabledKnowledgeBase}
    /\ last.agent.key \notin DOMAIN registry
    /\ Len(last.agent.knowledge_base_ids) >= 2
    /\ last.agent.knowledge_base_ids[1] \in DOMAIN knowledge_bases
    /\ knowledge_bases[last.agent.knowledge_base_ids[1]].enabled

\* C3: when the runner raises, every stored knowledge base listed by the
\* agent has its query_count grown by exactly 1, and execute_agent lets out
\* the very error the runner raised.
C3_FailureRecordedOncePerKb ==
    [][ (/\ last'.op = "execute_agent"
         /\ inflight.active
         /\ last'.raised \in RunnerErrors) =>
            /\ \A id \in DOMAIN knowledge_bases :
                   Bound(inflight.agent, id) =>
                       /\ id \in DOMAIN knowledge_bases'
                       /\ knowledge_bases'[id].query_count =
                              knowledge_bases[id].query_count + 1
            /\ last'.raised = last'.runner_raised
      ]_vars

\* C4: query_count of every stored knowledge base is the number of finished
\* executions (the runner returned, or raised an Exception) of agents bound
\* to it; nothing is recorded while a runner is still running.
C4_QueryCountIsExecutions ==
    \A id \in DOMAIN knowledge_bases :
        knowledge_bases[id].query_count = runner_calls[id]

\* C5: a runner that returns makes execute_agent return its result with
\* metadata agent_key = the key, agent_name and version = those of the
\* registered definition, execution_time_ms >= 0, and every other metadata
\* entry the runner supplied kept.
C5_ResultStamped ==
    (last.op = "execute_agent" /\ last.runner_invoked /\ last.raised = "none") =>
        LET m == last.returned.metadata
            supplied == IF last.supplied.has_metadata THEN last.supplied.metadata
                        ELSE EmptyDict
        IN /\ last.agent_key \in DOMAIN registry
           /\ last.returned.has_metadata
           /\ StampKeys \subseteq DOMAIN m
           /\ m["agent_key"] = last.agent_key
           /\ m["agent_name"] = registry[last.agent_key].name
           /\ m["version"] = registry[last.agent_key].version
           /\ m["execution_time_ms"] >= 0
           /\ \A k \in DOMAIN supplied \ StampKeys :
                  k \in DOMAIN m /\ m[k] = supplied[k]
           /\ last.returned.answer = last.supplied.answer

\* A returned execution whose runner had supplied metadata of its own, one
\* entry of it under the key agent_key, and that took measurable time.
C5_Witness ==
    /\ last.op = "execute_agent"
    /\ last.raised = "none"
    /\ last.supplied.has_metadata
    /\ last.supplied.metadata["agent_key"] # last.agent_key
    /\ last.returned.metadata["model"] = "gpt-4o"
    /\ last.returned.metadata["execution_time_ms"] > 0

\* C6: execute_agent with a key that is not registered fails with the
\* unknown-agent error, invokes no runner and changes neither the registry
\* nor any knowledge base.
C6_UnknownAgent ==
    [][ (/\ last'.op = "execute_agent"
         /\ ~inflight.active
         /\ last'.agent_key \notin DOMAIN registry) =>
            /\ last'.raised = UnknownAgent
            /\ ~last'.runner_invoked
            /\ ~inflight'.active
            /\ registry' = registry
            /\ knowledge_bases' = knowledge_bases
            /\ runner_calls' = runner_calls
      ]_vars

\* An execute_agent call refused for its key while another agent was
\* registered and a knowledge base with recorded queries was stored.
C6_Witness ==
    /\ last.op = "execute_agent"
    /\ last.raised = UnknownAgent
    /\ last.agent_key \notin DOMAIN registry
    /\ DOMAIN registry # {}
    /\ \E id \in DOMAIN knowledge_bases : knowledge_bases[id].query_count > 0

\* ------------------------------------------------------------- manager claims
Connectors(kb) == { kb.connectors[i] : i \in 1..Len(kb.connectors) }

\* C11: create_knowledge_base has no failing outcome and returns a knowledge
\* base that is stored, enabled, of status active, with exactly one version,
\* of document_count 0, whose tag is current_version.
C11_CreateKnowledgeBase ==
    last.op = "create_knowledge_base" =>
        /\ last.kb_id \in DOMAIN knowledge_bases
        /\ LET kb == knowledge_bases[last.kb_id]
           IN /\ kb.enabled
              /\ kb.status = "active"
              /\ Len(kb.versions) = 1
              /\ kb.versions[1].document_count = 0
              /\ kb.versions[1].version = kb.current_version

\* A second knowledge base created while the first one has a longer history.
C11_Witness ==
    /\ last.op = "create_knowledge_base"
    /\ last.kb_id = KbIds[2]
    /\ KbIds[1] \in DOMAIN knowledge_bases
    /\ Len(knowledge_bases[KbIds[1]].versions) >= 2

\* The pairs that are due when the clock shows t.
DuePairs(kbs, t) ==
    { p \in (DOMAIN kbs) \X ConnectorIdUniverse :
        /\ kbs[p[1]].enabled
        /\ \E c \in Connectors(kbs[p[1]]) :
               /\ c.connector_id = p[2]
               /\ c.enabled
               /\ c.auto_sync
               /\ c.next_sync_at # NoValue
               /\ c.next_sync_at[1] <= t }

\* C12: get_connectors_due_for_sync returns exactly the pairs (kb_id,
\* connector_id), each once, of which the knowledge base is enabled, the
\* connector is enabled, auto_sync is true and next_sync_at is set and not
\* after now; no connector of a disabled knowledge base is among them.
C12_DueForSync ==
    [][ (last'.op = "get_connectors_due_for_sync" /\ GetConnectorsDueForSync) =>
            LET returned == last'.returned
            IN /\ { returned[i] : i \in 1..Len(returned) } = DuePairs(knowledge_bases, now)
               /\ Len(returned) = Cardinality(DuePairs(knowledge_bases, now))
               /\ \A i \in 1..Len(returned) : knowledge_bases[returned[i][1]].enabled
      ]_vars

\* A poll that returned one pair while a disabled knowledge base held an
\* enabled connector whose next_sync_at had passed, and was left out.
C12_Witness ==
    /\ last.op = "get_connectors_due_for_sync"
    /\ Len(last.returned) = 1
    /\ { last.returned[i] : i \in 1..Len(last.returned) } = DuePairs(knowledge_bases, now)
    /\ \E id \in DOMAIN knowledge_bases :
           /\ ~knowledge_bases[id].enabled
           /\ \E c \in Connectors(knowledge_bases[id]) :
                  /\ c.enabled /\ c.auto_sync
                  /\ c.next_sync_at # NoValue
                  /\ c.next_sync_at[1] <= now

\* C13: trigger_sync on a stored knowledge base with an eligible connector
\* (enabled, and the one named if one is named) returns true, gives every
\* eligible connector last_sync_at = now, one more total_syncs and, if
\* auto_sync, next_sync_at = now + sync_interval_minutes, and ends in status
\* active; with none eligible it returns false, ends in status active and
\* changes no connector.
C13_TriggerSync ==
    [][ (last'.op = "trigger_sync" /\ now' = now) =>
        \A kb_id \in DOMAIN knowledge_bases,
           connector_id \in {NoValue} \cup { Some(x) : x \in ConnectorIdUniverse } :
            TriggerSync(kb_id, connector_id) =>
                LET before == knowledge_bases[kb_id]
                    after == knowledge_bases'[kb_id]
                    eligible == { i \in 1..Len(before.connectors) :
                                    /\ before.connectors[i].enabled
                                    /\ connector_id # NoValue =>
                                           before.connectors[i].connector_id = connector_id[1] }
                IN /\ after.status = "active"
                   /\ Len(after.connectors) = Len(before.connectors)
                   /\ eligible # {} =>
                          /\ last'.returned = TRUE
                          /\ \A i \in eligible :
                                 /\ after.connectors[i].last_sync_at = Some(now)
                                 /\ after.connectors[i].total_syncs =
                                        before.connectors[i].total_syncs + 1
                                 /\ before.connectors[i].auto_sync =>
                                        after.connectors[i].next_sync_at =
                                            Some(now + before.connectors[i].sync_interval_minutes)
                   /\ eligible = {} =>
                          /\ last'.returned = FALSE
                          /\ after.connectors = before.connectors
      ]_vars

\* A sync, a minute after the connectors were added, that took the first
\* connector of a knowledge base and left its disabled second one alone.
C13_Witness ==
    /\ last.op = "trigger_sync"
    /\ last.returned = TRUE
    /\ \E id \in DOMAIN knowledge_bases :
           LET cs == knowledge_bases[id].connectors
           IN /\ Len(cs) = 2
              /\ cs[1].total_syncs = 1
              /\ cs[1].last_sync_at = Some(1)
              /\ cs[1].next_sync_at = Some(2)
              /\ ~cs[2].enabled
              /\ cs[2].total_syncs = 0

MutatingCall(kb_id) ==
    \/ /\ last'.op = "update_knowledge_base"
       /\ \E name \in UpdateNames : UpdateKnowledgeBase(kb_id, name)
    \/ last'.op = "delete_knowledge_base" /\ DeleteKnowledgeBase(kb_id)
    \/ last'.op = "enable_knowledge_base" /\ EnableKnowledgeBase(kb_id)
    \/ last'.op = "disable_knowledge_base" /\ DisableKnowledgeBase(kb_id)
    \/ /\ last'.op = "create_version"
       /\ \E input \in VersionInputs : CreateVersion(kb_id, input)
    \/ /\ last'.op = "rollback_version"
       /\ \E t \in ManagerTargetVersions : RollbackVersion(kb_id, t)
    \/ /\ last'.op = "add_connector"
       /\ \E input \in ManagerConnectorInputs :
              AddConnector(kb_id, input.auto_sync, input.sync_interval_minutes)
    \/ /\ last'.op = "remove_connector"
       /\ \E c \in ConnectorIdUniverse : RemoveConnector(kb_id, c)
    \/ /\ last'.op = "enable_connector"
       /\ \E c \in ConnectorIdUniverse : EnableConnector(kb_id, c)
    \/ /\ last'.op = "disable_connector"
       /\ \E c \in ConnectorIdUniverse : DisableConnector(kb_id, c)
    \/ /\ last'.op = "trigger_sync"
       /\ \E c \in {NoValue} \cup { Some(x) : x \in ConnectorIdUniverse } :
              TriggerSync(kb_id, c)
    \/ /\ last'.op = "record_query"
       /\ \E success \in BOOLEAN : RecordQuery(kb_id, success)

\* The value a call returned is its not-found sentinel: None of the calls
\* that return an object (record_query returns None always), False of the
\* calls that return a bool.
NotFoundSentinel(call) ==
    CASE call.op \in {"update_knowledge_base", "add_connector"} -> call.returned = NoValue
      [] call.op = "create_version" -> ~call.found
      [] call.op = "record_query" -> TRUE
      [] OTHER -> call.returned = FALSE

\* C15: update, delete, enable, disable, create_version, rollback_version,
\* add_connector, remove_connector, enable_connector, disable_connector,
\* trigger_sync and record_query, called with a kb_id that is not stored,
\* return the not-found sentinel and leave the manager as it was.
C15_NotFound ==
    [][ \A kb_id \in KbIdUniverse :
            (kb_id \notin DOMAIN knowledge_bases /\ MutatingCall(kb_id)) =>
                /\ NotFoundSentinel(last')
                /\ knowledge_bases' = knowledge_bases
                /\ metrics' = metrics
                /\ next_connector_id' = next_connector_id
      ]_vars

\* create_version called with an id that is not stored while the manager
\* holds a knowledge base with a history, a connector and recorded queries.
C15_Witness ==
    /\ last.op = "create_version"
    /\ ~last.found
    /\ last.kb_id \notin DOMAIN knowledge_bases
    /\ \E id \in DOMAIN knowledge_bases :
           /\ Len(knowledge_bases[id].versions) >= 2
           /\ knowledge_bases[id].connectors # <<>>
           /\ knowledge_bases[id].query_count > 0

\* C16: delete_knowledge_base(id) returns true iff id was stored; afterwards
\* id is not stored, its metrics are gone, none of its connectors is in the
\* due list at any time, and every other knowledge base is as it was.
C16_Delete ==
    [][ \A kb_id \in KbIdUniverse :
            (last'.op = "delete_knowledge_base" /\ DeleteKnowledgeBase(kb_id)) =>
                LET owned == IF kb_id \in DOMAIN knowledge_bases
                             THEN { c.connector_id : c \in Connectors(knowledge_bases[kb_id]) }
                             ELSE {}
                IN /\ last'.returned = (kb_id \in DOMAIN knowledge_bases)
                   /\ kb_id \notin DOMAIN knowledge_bases'
                   /\ GetMetrics(metrics', kb_id) = NoValue
                   /\ kb_id \notin DOMAIN metrics'
                   /\ \A t \in 0..(MaxTime + 2) :
                          LET due == DueSyncs(knowledge_bases', 1, t)
                          IN \A i \in 1..Len(due) :
                                 due[i][1] # kb_id /\ due[i][2] \notin owned
                   /\ \A other \in DOMAIN knowledge_bases \ {kb_id} :
                          /\ other \in DOMAIN knowledge_bases'
                          /\ knowledge_bases'[other] = knowledge_bases[other]
      ]_vars

\* A delete that took a knowledge base and its connector away and left
\* another knowledge base, with a connector of its own, stored.
C16_Witness ==
    /\ last.op = "delete_knowledge_base"
    /\ last.returned = TRUE
    /\ next_connector_id = 3
    /\ Cardinality(DOMAIN knowledge_bases) = 1
    /\ \E id \in DOMAIN knowledge_bases : Len(knowledge_bases[id].connectors) = 1

\* What enable and disable leave alone.
SameContents(before, after) ==
    /\ after.versions = before.versions
    /\ after.current_version = before.current_version
    /\ after.connectors = before.connectors
    /\ after.query_count = before.query_count

\* C17: disable_knowledge_base sets enabled = false and status = inactive,
\* enable_knowledge_base sets enabled = true and status = active; a second
\* call changes nothing more, and neither changes versions, current_version,
\* connectors or query_count.
C17_EnableDisable ==
    [][ \A kb_id \in DOMAIN knowledge_bases :
            /\ (last'.op = "disable_knowledge_base" /\ DisableKnowledgeBase(kb_id)) =>
                   LET after == knowledge_bases'[kb_id]
                   IN /\ ~after.enabled /\ after.status = "inactive"
                      /\ SameContents(knowledge_bases[kb_id], after)
                      /\ KbDisable(after) = after
            /\ (last'.op = "enable_knowledge_base" /\ EnableKnowledgeBase(kb_id)) =>
                   LET after == knowledge_bases'[kb_id]
                   IN /\ after.enabled /\ after.status = "active"
                      /\ SameContents(knowledge_bases[kb_id], after)
                      /\ KbEnable(after) = after
      ]_vars

\* A disabled knowledge base that has a rolled-back history, a synced
\* connector and recorded queries.
C17_Witness ==
    /\ last.op = "disable_knowledge_base"
    /\ last.returned = TRUE
    /\ \E id \in DOMAIN knowledge_bases :
           LET kb == knowledge_bases[id]
           IN /\ ~kb.enabled /\ kb.status = "inactive"
              /\ Len(kb.versions) >= 2
              /\ kb.current_version # LastVersion(kb).version
              /\ \E c \in Connectors(kb) : c.total_syncs > 0
              /\ kb.query_count > 0

\* C18: record_query on a stored knowledge base adds exactly one to its
\* query_count, and what the manager holds (or what get_metrics returns)
\* after a failed query is not what it holds after a successful one.
C18_RecordQuery ==
    [][ \A kb_id \in DOMAIN knowledge_bases, success \in BOOLEAN :
            (last'.op = "record_query" /\ RecordQuery(kb_id, success)) =>
                /\ knowledge_bases'[kb_id].query_count =
                       knowledge_bases[kb_id].query_count + 1
                /\ \/ knowledge_bases' #
                          ManagerRecordQuery(knowledge_bases, kb_id, ~success)
                   \/ GetMetrics(metrics', kb_id) # GetMetrics(metrics, kb_id)
      ]_vars

\* ------------------------------------------------------------- travel agent claims
\* The analysis found no destination: the parsed object's has_destination,
\* read as _analyze_user_query reads it, is false.
NoAnchor(t) ==
    /\ t.analysis # NoValue
    /\ t.analysis[1].json = "object"
    /\ ~GetOr(t.analysis[1].has_destination, FALSE)

\* C19: whenever Analyze leaves needs_clarification true, the run goes from
\* Analyze straight to Synthesize: Search and Plan are never entered, no
\* retrieval call and no generation call beyond the analysis is made, and a
\* finished run returns no sources and an answer that is the clarification
\* text of the (at most 2) questions.
C19_ClarificationOnly ==
    (travel.needs_clarification = Some(TRUE) /\ travel.step # "analyze") =>
        /\ travel.visited \in {<<"analyze">>, <<"analyze", "synthesize">>}
        /\ travel.retrieval_calls = <<>>
        /\ travel.generate_calls = 1
        /\ travel.step \in {"synthesize", "done"}
        /\ travel.step = "done" =>
              LET questions == GetOr(travel.clarification_questions, <<>>)
              IN /\ travel.result # NoValue
                 /\ travel.result[1].sources = <<>>
                 /\ Len(questions) <= 2
                 /\ travel.result[1].answer = ClarificationText(questions)

\* C20: whenever the analysis of a query finds no destination, Analyze sets
\* needs_clarification to true and keeps at most 2 clarification questions.
C20_NoAnchorAsksBack ==
    (NoAnchor(travel) /\ travel.step \notin {"analyze", "failed"}) =>
        /\ travel.needs_clarification = Some(TRUE)
        /\ Len(GetOr(travel.clarification_questions, <<>>)) <= 2

\* C21: whenever the analysis reports a destination, Analyze leaves
\* needs_clarification false, also when the analysis asked for clarification;
\* and after Analyze clarification_questions holds at most 2 entries.
C21_AnchorForcesNoClarification ==
    travel.analysis # NoValue =>
        /\ Len(GetOr(travel.clarification_questions, <<>>)) <= 2
        /\ (/\ travel.analysis[1].json = "object"
            /\ travel.analysis[1].has_destination = Some(TRUE)) =>
               travel.needs_clarification = Some(FALSE)

\* The analysis named a destination, asked for clarification all the same
\* and listed three questions; the run went on to search with two kept.
C21_Witness ==
    /\ travel.analysis # NoValue
    /\ travel.analysis[1].has_destination = Some(TRUE)
    /\ travel.analysis[1].needs_clarification = Some(TRUE)
    /\ travel.analysis[1].clarification_questions = Some(<<Question(1), Question(2), Question(3)>>)
    /\ travel.needs_clarification = Some(FALSE)
    /\ travel.clarification_questions = Some(<<Question(1), Question(2)>>)
    /\ travel.step = "web_search"

TravelOrders ==
    { <<"analyze", "web_search", "create_plans", "synthesize">>,
      <<"analyze", "synthesize">> }

IsPrefix(p, s) == Len(p) <= Len(s) /\ SubSeq(s, 1, Len(p)) = p

\* The nodes entered so far, and the node the run is at, follow one order.
InOrder(t) ==
    \E order \in TravelOrders :
        IF t.step \in {"analyze", "web_search", "create_plans", "synthesize"}
        THEN IsPrefix(Append(t.visited, t.step), order)
        ELSE IF t.step = "done" THEN t.visited = order
        ELSE IsPrefix(t.visited, order)

\* A run that was inside the graph failed only at a provider: a call raised,
\* or the provider's client package is not there to make the call.
FailedAtProvider(t) ==
    (t.step = "failed" /\ t.visited # <<>>) =>
        t.error \in {"provider error",
                     "RuntimeError: google-generativeai package is required",
                     "RuntimeError: tavily package is required"}

C23_BestEffortSearch ==
    [][ \A r1 \in SearchResponses(1), r2 \in SearchResponses(2) :
          (travel.step = "web_search" /\ travel.env.tavily /\ DeepWebSearch(<<r1, r2>>)) =>
              /\ travel'.step = "create_plans"
              /\ Len(travel'.retrieval_calls) <= 2
              /\ \A i \in 1..Len(travel'.retrieval_calls) :
                     travel'.retrieval_calls[i].max_results <= 4
              /\ travel'.search_results =
                     Some((IF r1.ok THEN r1.results ELSE <<>>)
                              \o (IF r2.ok THEN r2.results ELSE <<>>))
      ]_vars

\* The first call failed, the second returned a hit, and the run is at Plan
\* with that hit alone.
C23_Witness ==
    /\ travel.step = "create_plans"
    /\ Len(travel.retrieval_calls) = 2
    /\ travel.search_results = Some(<<SearchHit(2)>>)

Blank(query) == \A i \in 1..Len(query) : query[i] = " "

\* C24: run_travel_agent enters Analyze exactly when the query has a
\* character other than white space and the credentials are set; an empty or
\* blank query fails with the empty-query error, missing credentials fail
\* the run, and neither failure enters a step or calls a provider.
C24_ChecksBeforeAnalyze ==
    [][ \A query \in Queries, env \in Envs :
          RunTravelAgent(query, env) =>
              /\ travel'.step = "analyze" <=> (~Blank(query) /\ env.keys)
              /\ Blank(query) =>
                     /\ travel'.step = "failed"
                     /\ travel'.error = "ValueError: Query must be a non-empty string"
              /\ (~Blank(query) /\ ~env.keys) =>
                     /\ travel'.step = "failed"
                     /\ travel'.error = "RuntimeError: Missing environment variables"
              /\ travel'.visited = <<>>
              /\ travel'.generate_calls = 0
              /\ travel'.retrieval_calls = <<>>
      ]_vars

\* A query of one space was refused before the graph was entered.
C24_Witness ==
    /\ travel.step = "failed"
    /\ travel.query = <<" ">>
    /\ travel.error = "ValueError: Query must be a non-empty string"
    /\ travel.visited = <<>>

\* ------------------------------------------------------------- execution claims
\* C25: an execution that is cancelled or timed out while its runner runs
\* still records one query for every stored knowledge base bound to the
\* agent, as the runner-failure path does.
C25_CancelRecordsFailure ==
    [][ (/\ inflight.active
         /\ ~inflight'.active
         /\ last'.op = "execute_agent"
         /\ last'.raised \in RunnerBaseErrors) =>
            \A id \in DOMAIN knowledge_bases :
                Bound(inflight.agent, id) =>
                    /\ id \in DOMAIN knowledge_bases'
                    /\ knowledge_bases'[id].query_count =
                           knowledge_bases[id].query_count + 1
      ]_vars

RECURSIVE SumRecorded(_)
SumRecorded(n) == IF n = 0 THEN 0 ELSE calls[n].recorded + SumRecorded(n - 1)

AllCallsCompleted == \A t \in Threads : calls[t].pc = "finished"

\* C26: whatever the interleaving of the concurrent execute_agent calls, once
\* all of them have completed the knowledge base's query_count has grown by
\* one for each call that recorded a query on it (no update is lost), and
\* each result carries the key of the agent it was run for.
C26_ConcurrentCallsIndependent ==
    AllCallsCompleted =>
        /\ Stored(KbIds[1]) =>
               knowledge_bases[KbIds[1]].query_count = SumRecorded(MaxThreads)
        /\ \A t \in Threads : calls[t].result # NoValue =>
               calls[t].result[1].metadata["agent_key"] = calls[t].agent_key

\* ------------------------------------------------------------- endpoint claims
\* C27: the run endpoint answers an unknown agent key with "not found" (404)
\* and every failure raised by a registered agent's runner with "internal
\* error" (500): a runner failure is never reported as "not found".
C27_RunnerFailureIsInternalError ==
    (last.op = "execute_agent" /\ last.raised \notin {"none", "pending"}) =>
        /\ ~last.runner_invoked => RunAgentStatus(last.raised) = 404
        /\ (last.runner_invoked /\ last.raised \in RunnerErrors) =>
               RunAgentStatus(last.raised) = 500

\* ------------------------------------------------------------- listing claims
Elements(list) == { list[i] : i \in DOMAIN list }

\* C28: after any sequence of register and unregister calls,
\* list_for_model_selector returns exactly one record per registered agent,
\* its id being "agent:" followed by the agent's key; every id starts with
\* "agent:" and the ids of distinct agents differ.
C28_SelectorIdsNamespaced ==
    last.op = "list_for_model_selector" =>
        /\ Len(last.returned) = Cardinality(DOMAIN registry)
        /\ \A k \in DOMAIN registry :
               Cardinality({i \in DOMAIN last.returned :
                               last.returned[i].id = <<"agent:", k>>}) = 1
        /\ \A i \in DOMAIN last.returned : last.returned[i].id[1] = "agent:"
        /\ \A i, j \in DOMAIN last.returned :
               i # j => last.returned[i].id # last.returned[j].id

C28_Witness ==
    /\ last.op = "list_for_model_selector"
    /\ ~Registered("travel_planning_agent")
    /\ Len(last.returned) = 3

\* A filter counts as supplied when it is neither None nor the empty string.
Supplied(opt) == opt \notin {NoValue, Some("")}

Satisfies(a, agent_type, capability, tag) ==
    /\ Supplied(agent_type) => a.agent_type = agent_type[1]
    /\ Supplied(capability) => capability[1] \in Elements(a.capabilities)
    /\ Supplied(tag) => tag[1] \in Elements(a.tags)

HasEnabledTrigger(a, trigger_type) ==
    \E i \in DOMAIN a.triggers :
        a.triggers[i].trigger_type = trigger_type /\ a.triggers[i].enabled

\* The definitions the callers construct without giving triggers.
WithoutTriggers == {TravelAgent, ResearchAgent(FALSE, <<>>)}

\* C30: get_agents_with_trigger(t) returns exactly the registered definitions
\* that have at least one enabled trigger of type t, each at most once; a
\* definition registered without triggers has a single enabled manual
\* trigger, so it is returned for the manual type and for no other.
C30_EnabledTriggerOnce ==
    last.op = "get_agents_with_trigger" =>
        LET expected == { registry[k] : k \in
                            { k \in DOMAIN registry :
                                HasEnabledTrigger(registry[k], last.trigger_type) } }
        IN /\ Elements(last.returned) = expected
           /\ Len(last.returned) = Cardinality(expected)
           /\ \A a \in WithoutTriggers :
                  (Registered(a.key) /\ registry[a.key] = a) =>
                      /\ Len(a.triggers) = 1
                      /\ (a \in Elements(last.returned)) <=> (last.trigger_type = "manual")

C30_Witness ==
    /\ last.op = "get_agents_with_trigger"
    /\ last.trigger_type = "scheduled"
    /\ Registered("travel_planning_agent") /\ Registered("hook_agent")
    /\ last.returned = <<DigestAgent>>

\* ------------------------------------------------------------- travel agent, answers
\* An answer that is a given text and nothing else.
PlainText(text) == [kind |-> "text", lines |-> <<>>, intro |-> <<>>, content |-> text]

TitleUrls(results) ==
    [i \in 1..Len(results) |-> [title |-> results[i].title, url |-> results[i].url]]

CarriedAnswers ==
    { travel.provider_answers[i][1] :
        i \in { j \in DOMAIN travel.provider_answers : travel.provider_answers[j] # NoValue } }

\* C31: when a response of the search provider carries a direct answer, the
\* run returns that answer as its answer, never calls the generation model,
\* and its sources are the title/url pairs of the search results.
C31_PrefersProviderAnswer ==
    (travel.step = "done" /\ CarriedAnswers # {}) =>
        /\ \E text \in CarriedAnswers : travel.result[1].answer = PlainText(text)
        /\ travel.generate_calls = 0
        /\ travel.result[1].sources = TitleUrls(GetOr(travel.search_results, <<>>))

\* C32: when the search provider returns results and no direct answer, the
\* run's answer is exactly the text the generation model produced, nothing
\* before it and nothing after, and sources lists the title/url of the
\* search results in the order they were retrieved.
C32_AnswerIsGeneratedText ==
    (/\ travel.step = "done"
     /\ GetOr(travel.search_results, <<>>) # <<>>
     /\ CarriedAnswers = {}) =>
        /\ \E g \in Generations : g.ok /\ travel.result[1].answer = PlainText(g.text)
        /\ travel.result[1].sources = TitleUrls(GetOr(travel.search_results, <<>>))

\* ------------------------------------------------------------- built-in agent
\* C33: once the registry module is imported the built-in travel agent is
\* registered under the key "travel_tavily": list_agents() has an entry with
\* that key and get_agent_runner("travel_tavily") returns run_travel_agent;
\* get_agent_runner on a key that is not registered fails with the
\* unknown-agent error.
C33_BuiltInTravelTavily ==
    /\ last.op = "init" =>
          /\ \E i \in DOMAIN ListAgents : ListAgents[i].key = "travel_tavily"
          /\ GetRunner("travel_tavily") =
                 [raised |-> "none", returned |-> Some("run_travel_agent")]
    /\ (last.op = "get_agent_runner" /\ ~Registered(last.agent_key)) =>
          last.raised = "ValueError: Unknown agent"

\* ------------------------------------------------------------- execution context claims
\* C34: knowledge bases are validated at registration only. Disabling or
\* deleting a knowledge base leaves the registry as it is; executing an agent
\* bound to it still calls the runner and returns its result; the list
\* injected under "knowledge_bases" has one entry per id of
\* knowledge_base_ids, None for a deleted knowledge base; and recording the
\* query creates nothing for a deleted knowledge base.
C34_ValidatedAtRegistrationOnly ==
    /\ []((inflight.active /\ UsesKnowledgeBases(inflight.agent)) =>
            LET ids == inflight.agent.knowledge_base_ids
                injected == inflight.exec_context["knowledge_bases"]
            IN /\ Len(injected) = Len(ids)
               /\ \A i \in 1..Len(ids) :
                    injected[i] = IF ids[i] \in DOMAIN knowledge_bases
                                  THEN <<knowledge_bases[ids[i]]>> ELSE <<>>)
    /\ [][last'.op \in {"delete_knowledge_base", "disable_knowledge_base"} =>
              registry' = registry]_vars
    /\ [][(~inflight.active /\ last'.op = "execute_agent"
              /\ last'.agent_key \in DOMAIN registry) => inflight'.active]_vars
    /\ [][(inflight.active /\ ~inflight'.active /\ last'.raised = "none") =>
              /\ last'.returned.answer = last'.supplied.answer
              /\ DOMAIN knowledge_bases' = DOMAIN knowledge_bases]_vars

C34_Witness ==
    /\ last.op = "execute_agent" /\ last.raised = "none"
    /\ last.agent_key = "research_agent" /\ Registered("research_agent")
    /\ registry["research_agent"] = ResearchAgent(TRUE, <<KbIds[1], KbIds[2]>>)
    /\ ~Stored(KbIds[1])
    /\ Stored(KbIds[2]) /\ ~knowledge_bases[KbIds[2]].enabled
    /\ knowledge_bases[KbIds[2]].query_count > 0

\* C35: the runner gets the caller's context, empty when none was given; when
\* the agent has use_knowledge_base and a non-empty knowledge_base_ids, the
\* key "knowledge_bases" is set to the manager's knowledge bases in the order
\* of knowledge_base_ids, whatever the caller had put there; otherwise the
\* context is passed as it came and the execution leaves every knowledge base
\* as it was.
C35_ContextInjection ==
    /\ [](inflight.active =>
            LET caller == IF inflight.context = NoValue THEN <<>> ELSE inflight.context[1]
                passed == inflight.exec_context
                ids == inflight.agent.knowledge_base_ids
            IN IF inflight.agent.use_knowledge_base /\ Len(ids) > 0
               THEN /\ DOMAIN passed = DOMAIN caller \cup {"knowledge_bases"}
                    /\ \A k \in DOMAIN caller \ {"knowledge_bases"} : passed[k] = caller[k]
                    /\ Len(passed["knowledge_bases"]) = Len(ids)
                    /\ \A i \in 1..Len(ids) :
                         ids[i] \in DOMAIN knowledge_bases =>
                             passed["knowledge_bases"][i] = <<knowledge_bases[ids[i]]>>
               ELSE /\ DOMAIN passed = DOMAIN caller
                    /\ \A k \in DOMAIN caller : passed[k] = caller[k])
    /\ [][(inflight.active /\ ~inflight'.active /\ ~UsesKnowledgeBases(inflight.agent)) =>
              knowledge_bases' = knowledge_bases]_vars

C35_Witness ==
    /\ inflight.active
    /\ inflight.agent = ResearchAgent(TRUE, <<KbIds[1], KbIds[2]>>)
    /\ inflight.context # NoValue
    /\ "knowledge_bases" \in DOMAIN inflight.context[1]
    /\ Stored(KbIds[1]) /\ Stored(KbIds[2])
    /\ inflight.exec_context["knowledge_bases"] # inflight.context[1]["knowledge_bases"]

\* ------------------------------------------------------------- sync claims
\* C36: trigger_sync(kb, connector_id) with a connector id changes at most
\* that connector. When the id is not a connector of the knowledge base, or
\* the connector is disabled, it returns false and changes no connector;
\* otherwise every other connector of the knowledge base and every other
\* knowledge base is left as it was.
C36_NamedSyncFrame ==
    [][ last'.op = "trigger_sync" =>
        \A kb_id \in KbIdUniverse, c \in ConnectorIdUniverse :
            TriggerSync(kb_id, Some(c)) =>
                /\ DOMAIN knowledge_bases' = DOMAIN knowledge_bases
                /\ \A id \in DOMAIN knowledge_bases \ {kb_id} :
                       knowledge_bases'[id] = knowledge_bases[id]
                /\ kb_id \in DOMAIN knowledge_bases =>
                     LET before == knowledge_bases[kb_id].connectors
                         after == knowledge_bases'[kb_id].connectors
                     IN /\ Len(after) = Len(before)
                        /\ \A i \in 1..Len(before) :
                               before[i].connector_id # c => after[i] = before[i]
                        /\ (~\E i \in 1..Len(before) :
                                 before[i].connector_id = c /\ before[i].enabled) =>
                               (last'.returned = FALSE /\ after = before)
                /\ kb_id \notin DOMAIN knowledge_bases => last'.returned = FALSE
      ]_vars

\* A sync of the second connector of a knowledge base that left its enabled
\* first connector alone.
C36_Witness ==
    /\ last.op = "trigger_sync" /\ last.returned = TRUE
    /\ \E id \in DOMAIN knowledge_bases :
           LET cs == knowledge_bases[id].connectors
           IN /\ Len(cs) = 2
              /\ cs[1].enabled /\ cs[1].total_syncs = 0
              /\ cs[2].total_syncs = 1

\* C37: in every state the manager's operations reach, a knowledge base with
\* enabled = false has status inactive.
C37_DisabledIsInactive ==
    \A id \in DOMAIN knowledge_bases :
        ~knowledge_bases[id].enabled => knowledge_bases[id].status = "inactive"

\* C38: a connector with auto_sync that trigger_sync has synced is not
\* reported by get_connectors_due_for_sync before sync_interval_minutes have
\* passed since the sync, and not at the instant of the sync itself: the
\* scheduler that syncs what the list reports does not find the connector
\* due again at once.
C38_NotDueRightAfterSync ==
    \A i \in 1..Len(DueSyncs(knowledge_bases, 1, now)) :
        LET pair == DueSyncs(knowledge_bases, 1, now)[i]
            kb == knowledge_bases[pair[1]]
        IN \A j \in 1..Len(kb.connectors) :
              (kb.connectors[j].connector_id = pair[2]
                   /\ kb.connectors[j].last_sync_at # NoValue) =>
                  /\ now >= kb.connectors[j].last_sync_at[1]
                                + kb.connectors[j].sync_interval_minutes
                  /\ now > kb.connectors[j].last_sync_at[1]

\* ------------------------------------------------------------- travel agent, proposals
Visited(node) == \E i \in DOMAIN travel.visited : travel.visited[i] = node

\* C39: the fallback of "synthesize", a generation call of its own, is taken
\* only when no proposal exists. A run that went through the search and the
\* plan has exactly one proposal when it reaches "synthesize": it does not
\* take the fallback, and its answer is built from that proposal.
C39_FallbackOnlyWithoutProposal ==
    /\ (travel.step \in {"synthesize", "done"} /\ Visited("web_search")
            /\ Visited("create_plans")) =>
           Len(GetOr(travel.travel_plans, <<>>)) = 1
    /\ (travel.step = "done" /\ Visited("web_search") /\ Visited("create_plans")) =>
           /\ travel.result[1].answer.kind = "plans"
           /\ travel.result[1].answer.content = travel.travel_plans[1][1].content
           /\ travel.generate_calls = 2
    /\ (travel.step = "done" /\ travel.result[1].answer.kind = "guide") =>
           GetOr(travel.travel_plans, <<>>) = <<>>

\* A run through the search and the plan that ended with the plans as its
\* answer, the search having found nothing.
C39_Witness ==
    /\ travel.step = "done"
    /\ Visited("web_search") /\ Visited("create_plans")
    /\ travel.search_results = Some(<<>>)
    /\ travel.result[1].answer.kind = "plans"

====
